---- MODULE Spec2Model ----
(***************************************************************************)
(* A model of the oddish toolkit: the Apple Health export ingestion        *)
(* (apple_health_kit.py), the Run join (run/run.py) and the polygon        *)
(* utilities (polygon.py).                                                 *)
(*                                                                         *)
(* Python strings are sequences of tokens: a token is a piece of text that *)
(* the code never looks inside (a vendor prefix, a bare name, a file       *)
(* extension, a path separator).  Two strings are equal exactly when their *)
(* token sequences are equal, and str.replace / str.split / re.search act  *)
(* on whole tokens.                                                        *)
(***************************************************************************)
EXTENDS Integers, Sequences, FiniteSets, TLC

VARIABLES
    pc,                             \* the step the program is at
    exception,                      \* the exception that ended it, "" if none
    export_xml,                     \* text of <folder>/export.xml
    export_tree,                    \* the element tree that text's document holds
    route_files,                    \* glob of <folder>/workout-routes/*.gpx, with each file's tree
    xml_string,                     \* what _load_apple_healthkit_export_xml hands to the parser
    apple_health_export_xml_root,   \* AppleHealthKit.apple_health_export_xml_root
    metadata,                       \* AppleHealthKit.metadata
    characteristics,                \* AppleHealthKit.characteristics
    quantities,                     \* AppleHealthKit.quantities
    workouts,                       \* AppleHealthKit.workouts
    routes,                         \* AppleHealthKit.routes
    run,                            \* the outcome of Run.from_HKMetadataKey
    polygon_files,                  \* glob of <folder>/*.csv, with the rows each file holds
    coordinates,                    \* the rows load_polygon has read
    ring,                           \* the coordinate list load_polygon hands to Polygon
    combined_df,                    \* what build_polygon_hierarchy returns
    directories,                    \* the directories that exist
    map_files,                      \* the files a map has been saved to
    browser,                        \* the paths the browser has been opened on, in order
    map_call,                       \* the last call of a map function and what it did
    run_config,                     \* the run_config a Run is constructed from
    run_heart_rate,                 \* Run.heart_rate
    pace_per_heart_beat,            \* Run.pace_per_heart_beat
    graph,                          \* what get_data_from_type or simple_graph came to
    pickle_file,                    \* the pickle_file build_apple_health_kit is given
    pickle_files                    \* the pickle files written

vars == <<pc, exception, export_xml, export_tree, route_files, xml_string,
          apple_health_export_xml_root, metadata, characteristics,
          quantities, workouts, routes, run,
          polygon_files, coordinates, ring, combined_df,
          directories, map_files, browser, map_call,
          run_config, run_heart_rate, pace_per_heart_beat, graph,
          pickle_file, pickle_files>>

inputVars == <<export_xml, export_tree, route_files>>
polygonVars == <<polygon_files, coordinates, ring, combined_df>>
mapVars == <<directories, map_files, browser, map_call>>
runVars == <<run_config, run_heart_rate, pace_per_heart_beat, graph>>
buildVars == <<pickle_file, pickle_files>>
healthVars == <<export_xml, export_tree, route_files, xml_string,
                apple_health_export_xml_root, metadata, characteristics,
                quantities, workouts, routes, run>>

----------------------------------------------------------------------------
(* Bounds of the model.                                                    *)

MaxXmlLen == 4
MaxRecords == 3
MaxWorkoutChildren == 3
MaxTrkpts == 2

----------------------------------------------------------------------------
(* Strings.                                                                *)

Str(t) == <<t>>

RECURSIVE Concat(_)
Concat(ss) == IF ss = <<>> THEN <<>> ELSE Head(ss) \o Concat(Tail(ss))

\* str.replace(old, ''), old one token: every occurrence is removed.
Replace(s, old) == SelectSeq(s, LAMBDA t : t # old)

\* re.search(pattern, s): the index of the first occurrence, 0 for None.
Search(pattern, s) ==
    IF \E i \in 1..Len(s) : s[i] = pattern
    THEN CHOOSE i \in 1..Len(s) : s[i] = pattern /\ \A j \in 1..(i - 1) : s[j] # pattern
    ELSE 0

\* s[:n] and s[n:] of Python, n a count of tokens.
Prefix(s, n) == SubSeq(s, 1, n)
Suffix(s, n) == SubSeq(s, n + 1, Len(s))

\* str.split(sep): the pieces between the occurrences of sep.
RECURSIVE Split(_, _)
Split(s, sep) ==
    LET i == Search(sep, s)
    IN  IF i = 0 THEN <<s>> ELSE <<Prefix(s, i - 1)>> \o Split(Suffix(s, i), sep)

Last(seq) == seq[Len(seq)]
Front(seq) == SubSeq(seq, 1, Len(seq) - 1)

Range(f) == {f[i] : i \in DOMAIN f}

RECURSIVE SeqsUpTo(_, _)
SeqsUpTo(S, n) ==
    IF n = 0 THEN {<<>>}
    ELSE LET shorter == SeqsUpTo(S, n - 1)
         IN  shorter \cup {Append(s, x) : s \in {t \in shorter : Len(t) = n - 1}, x \in S}

----------------------------------------------------------------------------
(* Python dicts are functions; an element's attrib is the sequence of its  *)
(* <<name, value>> pairs in document order, names distinct.                *)

EmptyDict == <<>>

DictSet(d, k, v) == [x \in DOMAIN d \cup {k} |-> IF x = k THEN v ELSE d[x]]

AttribKeys(attrib) == {attrib[i][1] : i \in DOMAIN attrib}
AttribGet(attrib, k) == attrib[CHOOSE i \in DOMAIN attrib : attrib[i][1] = k][2]

Elem(tag, attrib, children) ==
    [tag |-> tag, attrib |-> attrib, children |-> children, text |-> <<>>]
TextElem(tag, text) == [tag |-> tag, attrib |-> <<>>, children |-> <<>>, text |-> text]

NoElem == Elem("", <<>>, <<>>)

AttribDict(attrib) == [k \in AttribKeys(attrib) |-> AttribGet(attrib, k)]

\* Element.iter() without the element itself: its descendants in document order.
RECURSIVE Descendants(_)
Descendants(e) ==
    Concat([i \in DOMAIN e.children |-> <<e.children[i]>> \o Descendants(e.children[i])])

\* Element.findall('.//tag') and Element.find('.//tag') (NoElem for None).
FindAll(e, tag) == SelectSeq(Descendants(e), LAMBDA c : c.tag = tag)
Find(e, tag) ==
    LET found == FindAll(e, tag)
    IN  IF found = <<>> THEN NoElem ELSE Head(found)

----------------------------------------------------------------------------
(* pandas conversions.  A cell is a string, a Timestamp, a number or NaN.  *)

NaN == <<"NaN">>
Timestamp(n) == <<"Timestamp", n>>
Number(n) == <<"float", n>>

DateText == {Str("2023-12-31"), Str("2024-01-01"), Str("2024-01-02"), Str("2024-01-03"),
             Str("2024-01-04")}
NumberText == {Str("60"), Str("72")}

IsDateText(v) == v \in DateText \/ v = NaN
IsNumberText(v) == v \in NumberText \/ v = NaN \/ (Len(v) = 2 /\ v[1] = "float")

\* pd.to_datetime of one value that parses.
to_datetime(v) ==
    CASE v = Str("2023-12-31") -> Timestamp(0)
      [] v = Str("2024-01-01") -> Timestamp(1)
      [] v = Str("2024-01-02") -> Timestamp(2)
      [] v = Str("2024-01-03") -> Timestamp(3)
      [] v = Str("2024-01-04") -> Timestamp(4)
      [] OTHER -> v

\* pd.to_numeric of one value that parses.
to_numeric(v) ==
    CASE v = Str("60") -> Number(60)
      [] v = Str("72") -> Number(72)
      [] OTHER -> v

\* pd.DataFrame(list of dicts): the columns are all the keys, a missing cell is NaN.
DataFrame(dicts) ==
    LET cols == UNION {DOMAIN dicts[i] : i \in DOMAIN dicts}
    IN  [columns |-> cols,
         rows |-> [i \in DOMAIN dicts |->
                     [c \in cols |-> IF c \in DOMAIN dicts[i] THEN dicts[i][c] ELSE NaN]]]

Column(df, c) == [i \in DOMAIN df.rows |-> df.rows[i][c]]

SetColumn(df, c, cells) ==
    [columns |-> df.columns \cup {c},
     rows |-> [i \in DOMAIN df.rows |->
                 [x \in df.columns \cup {c} |-> IF x = c THEN cells[i] ELSE df.rows[i][x]]]]

----------------------------------------------------------------------------
(* _load_apple_healthkit_export_xml                                        *)

DOCTYPE == "<!DOCTYPE"
SubsetEnd == "]>"
VT == "\\x0b"

\* A call's outcome: the value it returns, or the exception it raises.
Return(v) == [raised |-> "", value |-> v]
Raise(e) == [raised |-> e, value |-> <<>>]

StripDoctype(s) ==
    LET start_strip == Search(DOCTYPE, s) - 1
        end_strip == Search(SubsetEnd, s)
    IN  Prefix(s, start_strip) \o Suffix(s, end_strip)

_load_apple_healthkit_export_xml(text) ==
    IF Search(DOCTYPE, text) = 0 \/ Search(SubsetEnd, text) = 0
    THEN Raise("AttributeError")
    ELSE Return(Replace(StripDoctype(text), VT))

----------------------------------------------------------------------------
(* _get_metadata and _get_characteristics                                  *)

\* A variant that skips a missing ExportDate node and keeps going.
MetadataIfPresent(root) ==
    LET export_date_xml == Find(root, "ExportDate")
    IN  IF export_date_xml = NoElem THEN Return(EmptyDict)
        ELSE Return(DictSet(EmptyDict, Str("export_date"),
                            to_datetime(AttribGet(export_date_xml.attrib, Str("value")))))

_get_metadata(root) ==
    LET export_date_xml == Find(root, "ExportDate")
    IN  IF export_date_xml = NoElem THEN Raise("AttributeError")
        ELSE IF Str("value") \notin AttribKeys(export_date_xml.attrib) THEN Raise("KeyError")
        ELSE IF AttribGet(export_date_xml.attrib, Str("value")) \notin DateText
             THEN Raise("ValueError")
        ELSE Return(DictSet(EmptyDict, Str("export_date"),
                            to_datetime(AttribGet(export_date_xml.attrib, Str("value")))))

RECURSIVE CharacteristicsOf(_)
CharacteristicsOf(attrib) ==
    IF attrib = <<>> THEN EmptyDict
    ELSE DictSet(CharacteristicsOf(Front(attrib)),
                 Replace(Last(attrib)[1], "HKCharacteristicTypeIdentifier"),
                 Last(attrib)[2])

_get_characteristics(root) ==
    LET characteristics_xml == Find(root, "Me")
        chars == CharacteristicsOf(characteristics_xml.attrib)
    IN  IF characteristics_xml = NoElem THEN Raise("AttributeError")
        ELSE IF Str("DateOfBirth") \notin DOMAIN chars THEN Raise("KeyError")
        ELSE IF chars[Str("DateOfBirth")] \notin DateText THEN Raise("ValueError")
        ELSE Return([chars EXCEPT ![Str("DateOfBirth")] = to_datetime(@)])

----------------------------------------------------------------------------
(* _build_AHK_quantity_tables                                              *)

\* 'date' in col.lower(): the column names of the exports that contain it.
DateNameTokens == {"startDate", "endDate", "creationDate"}
DateNamed(col) == \E i \in DOMAIN col : col[i] \in DateNameTokens

\* A variant that removes a vendor string only where it leads the type.
LeadingPrefixRemoved(type) ==
    IF type # <<>> /\ Head(type) \in {"HKQuantityTypeIdentifier", "HKCategoryTypeIdentifier",
                                      "HKDataType"}
    THEN Tail(type) ELSE type

\* The table key of a Record type: three str.replace calls in a row.
RecordType(type) ==
    Replace(Replace(Replace(type, "HKQuantityTypeIdentifier"),
                    "HKCategoryTypeIdentifier"),
            "HKDataType")

\* A variant that starts the list of a key anew with every row.
OverwriteWith(lists, key, row) == DictSet(lists, key, <<row>>)

\* lists[key].append(row), the list created when the key is new.
AppendTo(lists, key, row) ==
    IF key \in DOMAIN lists
    THEN [lists EXCEPT ![key] = Append(@, row)]
    ELSE DictSet(lists, key, <<row>>)

\* The loop over the Record elements: key -> list of attribute dicts.
RECURSIVE QuantityLists(_)
QuantityLists(quantity_records) ==
    IF quantity_records = <<>> THEN EmptyDict
    ELSE LET record == Last(quantity_records)
         IN  AppendTo(QuantityLists(Front(quantity_records)),
                      RecordType(AttribGet(record.attrib, Str("type"))),
                      AttribDict(record.attrib))

\* df[col] = pd.to_datetime(df[col]) for every date-named column; raises on a
\* cell that does not parse.
DateColumns(df) == {c \in df.columns : DateNamed(c)}
DatesParse(df, cols) ==
    \A c \in cols : \A i \in DOMAIN df.rows : IsDateText(df.rows[i][c])
CastDates(df, cols) ==
    [columns |-> df.columns,
     rows |-> [i \in DOMAIN df.rows |->
                 [c \in df.columns |->
                    IF c \in cols THEN to_datetime(df.rows[i][c]) ELSE df.rows[i][c]]]]

\* A variant that converts the cells that parse and leaves the others.
CoerceCells(df, col) ==
    IF col \notin df.columns THEN df
    ELSE SetColumn(df, col, [i \in DOMAIN df.rows |-> to_numeric(df.rows[i][col])])

\* try: df[col] = pd.to_numeric(df[col]) except: pass
TryNumeric(df, col) ==
    IF col \notin df.columns THEN df
    ELSE IF \A i \in DOMAIN df.rows : IsNumberText(df.rows[i][col])
         THEN SetColumn(df, col, [i \in DOMAIN df.rows |-> to_numeric(df.rows[i][col])])
         ELSE df

QuantityTable(dicts) ==
    LET df == DataFrame(dicts)
    IN  TryNumeric(CastDates(df, DateColumns(df)), Str("value"))

_build_AHK_quantity_tables(root) ==
    LET quantity_records == FindAll(root, "Record")
        lists == QuantityLists(quantity_records)
    IN  IF \E i \in DOMAIN quantity_records :
              Str("type") \notin AttribKeys(quantity_records[i].attrib)
        THEN Raise("KeyError")
        ELSE IF \E k \in DOMAIN lists :
                   ~DatesParse(DataFrame(lists[k]), DateColumns(DataFrame(lists[k])))
        THEN Raise("ValueError")
        ELSE Return([k \in DOMAIN lists |-> QuantityTable(lists[k])])

----------------------------------------------------------------------------
(* _build_AHK_workout_tables                                               *)

WorkoutType(workoutActivityType) == Replace(workoutActivityType, "HKWorkoutActivityType")

\* for metadata_entry in workout.findall('.//MetadataEntry'): a later entry
\* overwrites an earlier one with the same key.
RECURSIVE WithMetadata(_, _)
WithMetadata(workout_dict, workout_metadata) ==
    IF workout_metadata = <<>> THEN workout_dict
    ELSE LET metadata_entry == Last(workout_metadata)
         IN  DictSet(WithMetadata(workout_dict, Front(workout_metadata)),
                     AttribGet(metadata_entry.attrib, Str("key")),
                     AttribGet(metadata_entry.attrib, Str("value")))

\* A variant that leaves the WorkoutActivity elements in the Workout.
KeepActivities(workout) == workout

\* for child in workout.findall('.//WorkoutActivity'): workout.remove(child)
RemoveActivities(workout) ==
    [workout EXCEPT !.children = SelectSeq(@, LAMBDA c : c.tag # "WorkoutActivity")]

\* Element.remove raises ValueError for an element that is no direct child.
RemoveRaises(workout) ==
    Len(FindAll(workout, "WorkoutActivity"))
        # Len(SelectSeq(workout.children, LAMBDA c : c.tag = "WorkoutActivity"))

StatisticSkipped == {Str("type"), Str("startDate"), Str("endDate")}

\* f'{ws_type}_{key}'
StatisticColumn(ws_type, key) == ws_type \o Str("_") \o key

\* The columns of one WorkoutStatistics element, attribute by attribute.
RECURSIVE WithStatistic(_, _, _)
WithStatistic(workout_dict, ws_type, attrib) ==
    IF attrib = <<>> THEN workout_dict
    ELSE LET rest == WithStatistic(workout_dict, ws_type, Front(attrib))
             key == Last(attrib)[1]
         IN  IF key \in StatisticSkipped THEN rest
             ELSE DictSet(rest, StatisticColumn(ws_type, key), Last(attrib)[2])

RECURSIVE WithStatistics(_, _)
WithStatistics(workout_dict, workout_statistics) ==
    IF workout_statistics = <<>> THEN workout_dict
    ELSE LET workout_statistic == Last(workout_statistics)
         IN  WithStatistic(WithStatistics(workout_dict, Front(workout_statistics)),
                           Replace(AttribGet(workout_statistic.attrib, Str("type")),
                                   "HKQuantityTypeIdentifier"),
                           workout_statistic.attrib)

WithRoute(workout_dict, workout) ==
    LET workout_route == Find(workout, "WorkoutRoute")
    IN  IF workout_route = NoElem THEN workout_dict
        ELSE DictSet(workout_dict, Str("route_file_reference"),
                     AttribGet(Find(workout_route, "FileReference").attrib, Str("path")))

\* The row of one Workout element (lines 297-319).
WorkoutDict(workout) ==
    LET with_metadata == WithMetadata(AttribDict(workout.attrib),
                                      FindAll(workout, "MetadataEntry"))
        pruned == RemoveActivities(workout)
    IN  WithRoute(WithStatistics(with_metadata, FindAll(pruned, "WorkoutStatistics")),
                  pruned)

\* The exception one Workout element raises in that loop body, "" for none.
WorkoutRaises(workout) ==
    LET pruned == RemoveActivities(workout)
        workout_route == Find(pruned, "WorkoutRoute")
    IN  IF Str("workoutActivityType") \notin AttribKeys(workout.attrib) THEN "KeyError"
        ELSE IF \E m \in Range(FindAll(workout, "MetadataEntry")) :
                    ~({Str("key"), Str("value")} \subseteq AttribKeys(m.attrib))
             THEN "KeyError"
        ELSE IF RemoveRaises(workout) THEN "ValueError"
        ELSE IF \E w \in Range(FindAll(pruned, "WorkoutStatistics")) :
                    Str("type") \notin AttribKeys(w.attrib)
             THEN "KeyError"
        ELSE IF workout_route # NoElem /\ Find(workout_route, "FileReference") = NoElem
             THEN "AttributeError"
        ELSE IF workout_route # NoElem
                /\ Str("path") \notin AttribKeys(Find(workout_route, "FileReference").attrib)
             THEN "KeyError"
        ELSE ""

RECURSIVE WorkoutLists(_)
WorkoutLists(workout_records) ==
    IF workout_records = <<>> THEN EmptyDict
    ELSE LET workout == Last(workout_records)
         IN  AppendTo(WorkoutLists(Front(workout_records)),
                      WorkoutType(AttribGet(workout.attrib, Str("workoutActivityType"))),
                      WorkoutDict(workout))

\* The tree after the loop: every Workout has lost its WorkoutActivity children.
RECURSIVE PruneWorkouts(_)
PruneWorkouts(e) ==
    [e EXCEPT !.children =
        [i \in DOMAIN e.children |->
            PruneWorkouts(IF e.children[i].tag = "Workout"
                          THEN RemoveActivities(e.children[i])
                          ELSE e.children[i])]]

WorkoutTable(dicts) ==
    LET df == DataFrame(dicts)
    IN  CastDates(df, DateColumns(df))

\* The outcome also carries tree, the root as the call leaves it: the loop
\* removes elements from the tree it reads.
_build_AHK_workout_tables(root) ==
    LET workout_records == FindAll(root, "Workout")
        lists == WorkoutLists(workout_records)
        failing == {i \in DOMAIN workout_records : WorkoutRaises(workout_records[i]) # ""}
        first == CHOOSE i \in failing : \A j \in failing : i <= j
    IN  IF failing # {}
        THEN [raised |-> WorkoutRaises(workout_records[first]), value |-> <<>>,
              tree |-> root]
        ELSE IF \E k \in DOMAIN lists :
                   ~DatesParse(DataFrame(lists[k]), DateColumns(DataFrame(lists[k])))
        THEN [raised |-> "ValueError", value |-> <<>>, tree |-> PruneWorkouts(root)]
        ELSE [raised |-> "", value |-> [k \in DOMAIN lists |-> WorkoutTable(lists[k])],
              tree |-> PruneWorkouts(root)]

----------------------------------------------------------------------------
(* _build_AHK_route_tables                                                 *)

GPX == ".gpx"
Backslash == "\\"
Slash == "/"

\* route_file.split('\\')[-1].replace('.gpx', '')
RouteId(route_file) == Replace(Last(Split(route_file, Backslash)), GPX)

\* The exception one trkpt element raises, "" for none.
TrkptRaises(trkpt) ==
    LET extensions == Find(trkpt, "extensions")
    IN  IF ~({Str("lat"), Str("lon")} \subseteq AttribKeys(trkpt.attrib)) THEN "KeyError"
        ELSE IF Find(trkpt, "ele") = NoElem \/ Find(trkpt, "time") = NoElem
             THEN "AttributeError"
        ELSE IF extensions = NoElem THEN "AttributeError"
        ELSE IF \E t \in {"speed", "course", "hAcc", "vAcc"} : Find(extensions, t) = NoElem
             THEN "AttributeError"
        ELSE ""

TrkptRow(route_id, trkpt) ==
    LET extensions == Find(trkpt, "extensions")
    IN  (Str("route_id") :> route_id)
        @@ (Str("lat") :> AttribGet(trkpt.attrib, Str("lat")))
        @@ (Str("lon") :> AttribGet(trkpt.attrib, Str("lon")))
        @@ (Str("ele") :> Find(trkpt, "ele").text)
        @@ (Str("time") :> Find(trkpt, "time").text)
        @@ (Str("speed") :> Find(extensions, "speed").text)
        @@ (Str("course") :> Find(extensions, "course").text)
        @@ (Str("hAcc") :> Find(extensions, "hAcc").text)
        @@ (Str("vAcc") :> Find(extensions, "vAcc").text)

\* The rows of the files in glob order, each file's trkpts in document order.
RECURSIVE TrkptList(_)
TrkptList(files) ==
    IF files = <<>> THEN <<>>
    ELSE LET route_file == Last(files)
             trkpts == FindAll(route_file.tree, "trkpt")
         IN  TrkptList(Front(files))
             \o [i \in DOMAIN trkpts |-> TrkptRow(RouteId(route_file.path), trkpts[i])]

\* 'time' in col.lower(), over the columns of the routes table.
TimeNamed(col) == \E i \in DOMAIN col : col[i] = "time"

ValueColumns == <<Str("lat"), Str("lon"), Str("ele"), Str("speed"),
                  Str("course"), Str("hAcc"), Str("vAcc")>>

RECURSIVE TryNumericAll(_, _)
TryNumericAll(df, cols) ==
    IF cols = <<>> THEN df
    ELSE LET cast == TryNumericAll(df, Front(cols))
         IN  TryNumeric(cast, Last(cols))

\* A variant without the try/except around the numeric casts: a column that is not
\* in the table raises KeyError.
UnguardedRouteTables(files) ==
    LET df == DataFrame(TrkptList(files))
    IN  IF \E i \in DOMAIN ValueColumns : ValueColumns[i] \notin df.columns
        THEN Raise("KeyError")
        ELSE Return(TryNumericAll(CastDates(df, {c \in df.columns : TimeNamed(c)}),
                                  ValueColumns))

_build_AHK_route_tables(files) ==
    LET df == DataFrame(TrkptList(files))
        time_columns == {c \in df.columns : TimeNamed(c)}
    IN  IF \E f \in Range(files) : \E t \in Range(FindAll(f.tree, "trkpt")) :
               TrkptRaises(t) # ""
        THEN Raise(LET f == CHOOSE f \in Range(files) :
                               \E t \in Range(FindAll(f.tree, "trkpt")) : TrkptRaises(t) # ""
                   IN  TrkptRaises(CHOOSE t \in Range(FindAll(f.tree, "trkpt")) :
                                       TrkptRaises(t) # ""))
        ELSE IF ~DatesParse(df, time_columns) THEN Raise("ValueError")
        ELSE Return(TryNumericAll(CastDates(df, time_columns), ValueColumns))

----------------------------------------------------------------------------
(* Run.from_HKMetadataKey (run/run.py)                                     *)

\* str.lower(), token by token.
LowerToken(t) == CASE t = "Male" -> "male" [] t = "Female" -> "female" [] OTHER -> t
Lower(s) == [i \in DOMAIN s |-> LowerToken(s[i])]

\* df[mask]: the rows that satisfy Keep, in order, as a sequence of rows.
RowsWhere(df, Keep(_)) == SelectSeq(df.rows, Keep)

IsTimestamp(v) == Len(v) = 2 /\ v[1] = "Timestamp"
Before(a, b) == IsTimestamp(a) /\ IsTimestamp(b) /\ a[2] < b[2]

\* float(x) succeeds on a number and on text that is one.
Floats(v) == (Len(v) = 2 /\ v[1] = "float") \/ v \in NumberText

NotRun == [raised |-> "", line |-> 0, locals |-> EmptyDict]
RaiseAt(e, line, locals) == [raised |-> e, line |-> line, locals |-> locals]

\* The columns of the workout row that run_config reads, in the order it reads them
\* (lines 198-216), with the text each cell must lose before float() is applied
\* ("" for a cell that is not converted).
RunConfigReads ==
    <<<<Str("HKMetadataKeySyncIdentifier"), "", 198>>,
      <<Str("duration"), "float", 207>>,
      <<Str("startDate"), "", 208>>,
      <<Str("endDate"), "", 209>>,
      <<Str("HKWeatherTemperature"), " degF", 210>>,
      <<Str("HKWeatherHumidity"), " %", 211>>,
      <<<<"HKQuantityTypeIdentifier", "ActiveEnergyBurned">>, "float", 212>>,
      <<<<"HKQuantityTypeIdentifier", "BasalEnergyBurned">>, "float", 213>>,
      <<<<"HKQuantityTypeIdentifier", "DistanceWalkingRunning">>, "float", 214>>,
      <<Str("HKElevationAscended"), " cm", 215>>,
      <<Str("route_file_reference"), "", 216>>>>

\* The exception reading one of those cells raises, "" for none.
ReadRaises(workout, read) ==
    IF read[1] \notin DOMAIN workout THEN "KeyError"
    ELSE IF read[2] = "" THEN ""
    ELSE IF read[2] # "float" /\ workout[read[1]] = NaN THEN "AttributeError"
    ELSE IF ~Floats(Replace(workout[read[1]], read[2])) THEN "ValueError"
    ELSE ""

FailingReads(workout) ==
    {i \in DOMAIN RunConfigReads : ReadRaises(workout, RunConfigReads[i]) # ""}

\* The value of the last row of table that starts before the workout (lines 183-186).
LatestBefore(table, workout_start_date) ==
    RowsWhere(table, LAMBDA r : Before(r[Str("startDate")], workout_start_date))

QuantityReads == <<Str("BodyMass"), Str("RestingHeartRate"), Str("VO2Max"),
                   Str("HeartRateVariabilitySDNN")>>

\* route_id = workout['route_file_reference'].split('/')[-1].split('.gpx')[0]
RunRouteId(route_file_reference) == Split(Last(Split(route_file_reference, Slash)), GPX)[1]

from_HKMetadataKey(chars, quants, works, route_table, HKMetadataKey) ==
    LET running == works[Str("Running")]
        matching == RowsWhere(running,
                              LAMBDA r : r[Str("HKMetadataKeySyncIdentifier")] = HKMetadataKey)
        workout == matching[1]
        earlier(k) == LatestBefore(quants[k], workout[Str("startDate")])
        heart_rate_table == quants[Str("HeartRate")]
        heart_rate ==
            RowsWhere(heart_rate_table,
                      LAMBDA r : /\ Before(workout[Str("startDate")], r[Str("startDate")])
                                 /\ Before(r[Str("startDate")], workout[Str("endDate")]))
        route_id == RunRouteId(workout[Str("route_file_reference")])
        route_gpx == RowsWhere(route_table, LAMBDA r : r[Str("route_id")] = route_id)
        joined == (Str("route_id") :> route_id) @@ (Str("route_gpx") :> route_gpx)
                  @@ (Str("heart_rate") :> heart_rate)
                  @@ (Str("weight") :> Last(earlier(Str("BodyMass")))[Str("value")])
                  @@ (Str("resting_heart_rate")
                         :> Last(earlier(Str("RestingHeartRate")))[Str("value")])
                  @@ (Str("v02_max") :> Last(earlier(Str("VO2Max")))[Str("value")])
                  @@ (Str("heart_rate_variability_sdnn")
                         :> Last(earlier(Str("HeartRateVariabilitySDNN")))[Str("value")])
        first_read == CHOOSE i \in FailingReads(workout) :
                          \A j \in FailingReads(workout) : i <= j
    IN  IF Str("BiologicalSex") \notin DOMAIN chars THEN RaiseAt("KeyError", 172, EmptyDict)
        ELSE IF Str("Running") \notin DOMAIN works THEN RaiseAt("KeyError", 174, EmptyDict)
        ELSE IF Str("HKMetadataKeySyncIdentifier") \notin running.columns
             THEN RaiseAt("KeyError", 175, EmptyDict)
        ELSE IF matching = <<>> THEN RaiseAt("IndexError", 175, EmptyDict)
        ELSE IF \E i \in DOMAIN QuantityReads : QuantityReads[i] \notin DOMAIN quants
             THEN RaiseAt("KeyError", 178, EmptyDict)
        ELSE IF \E i \in DOMAIN QuantityReads : earlier(QuantityReads[i]) = <<>>
             THEN RaiseAt("IndexError", 183, EmptyDict)
        ELSE IF \E i \in DOMAIN QuantityReads :
                    Str("value") \notin quants[QuantityReads[i]].columns
             THEN RaiseAt("KeyError", 183, EmptyDict)
        ELSE IF Str("HeartRate") \notin DOMAIN quants
                \/ ~({Str("startDate"), Str("value")} \subseteq heart_rate_table.columns)
             THEN RaiseAt("KeyError", 188, EmptyDict)
        ELSE IF Str("route_file_reference") \notin running.columns
             THEN RaiseAt("KeyError", 192, EmptyDict)
        ELSE IF workout[Str("route_file_reference")] = NaN
             THEN RaiseAt("AttributeError", 192, EmptyDict)
        ELSE IF Str("route_id") \notin route_table.columns
             THEN RaiseAt("KeyError", 193, EmptyDict)
        ELSE IF Str("HKTimeZone") \notin running.columns
             THEN RaiseAt("KeyError", 195, joined)
        ELSE IF workout[Str("HKTimeZone")] = NaN
             THEN RaiseAt("AttributeError", 195, joined)
        ELSE IF \E i \in DOMAIN QuantityReads :
                    ~Floats(Last(earlier(QuantityReads[i]))[Str("value")])
             THEN RaiseAt("ValueError", 203, joined)
        ELSE IF FailingReads(workout) # {}
             THEN RaiseAt(ReadRaises(workout, RunConfigReads[first_read]),
                          RunConfigReads[first_read][3], joined)
        ELSE [raised |-> "", line |-> 221,
              locals |-> joined @@ (Str("sex") :> Lower(Replace(chars[Str("BiologicalSex")],
                                                                "HKBiologicalSex")))]

----------------------------------------------------------------------------
(* polygon.py.  A CSV cell is a number.  A polygon is the set of the rings  *)
(* whose areas it covers: Polygon(ring) covers one, the empty Polygon()     *)
(* none, and union joins what two polygons cover.                           *)

\* coordinates[0] != coordinates[-1]
Differs(coords) == coords[1] # Last(coords)

Polygon(coords) == {coords}
EmptyPolygon == {}

\* A variant that appends the first vertex whether the list is closed or not.
AppendFirst(coords) == Append(coords, coords[1])

\* The list handed to Polygon (lines 35-38).
ClosedRing(coords) == IF Differs(coords) THEN Append(coords, coords[1]) ELSE coords

\* pd.read_csv raises on a file without rows.
load_polygon(rows) ==
    IF rows = <<>> THEN Raise("EmptyDataError") ELSE Return(Polygon(ClosedRing(rows)))

\* A variant that keeps the last polygon in place of the union.
LastPolygon(polygons) == IF polygons = <<>> THEN EmptyPolygon ELSE Last(polygons)

RECURSIVE union_polygons(_)
union_polygons(polygons) ==
    IF polygons = <<>> THEN EmptyPolygon
    ELSE union_polygons(Front(polygons)) \cup Last(polygons)

\* str.title() of a token: its first letter upper, the others lower.
TitleToken(t) ==
    CASE t = "sd" -> "Sd"
      [] t = "san" -> "San"
      [] t = "diego" -> "Diego"
      [] t = "north" -> "North"
      [] t = "all" -> "All"
      [] OTHER -> t

\* name.replace('_', ' ').title()
FormatName(name) == [i \in DOMAIN name |-> TitleToken(IF name[i] = "_" THEN " " ELSE name[i])]

\* sep.join(parts)
RECURSIVE Join(_, _)
Join(sep, parts) ==
    IF Len(parts) = 0 THEN <<>>
    ELSE IF Len(parts) = 1 THEN parts[1]
    ELSE Join(sep, Front(parts)) \o sep \o Last(parts)

\* os.path.basename(polygon_file).split('.')[0].split('-'), each part formatted.
FormattedNames(polygon_file) ==
    LET names == Split(Split(Last(Split(polygon_file, Slash)), ".")[1], "-")
    IN  [i \in DOMAIN names |-> FormatName(names[i])]

\* Series.unique(): the values in the order they first appear.
RECURSIVE Unique(_)
Unique(values) ==
    IF values = <<>> THEN <<>>
    ELSE LET before == Unique(Front(values))
         IN  IF Last(values) \in Range(before) THEN before ELSE Append(before, Last(values))

All == Str("All")

PolygonRow(file) ==
    LET formatted_names == FormattedNames(file.path)
    IN  [city |-> formatted_names[1],
         region |-> formatted_names[2],
         section |-> formatted_names[3],
         name |-> Join(Str(" "), formatted_names),
         polygon |-> load_polygon(file.rows).value]

PolygonsOf(rows) == [i \in DOMAIN rows |-> rows[i].polygon]

CityRows(polygon_df) ==
    LET cities == Unique([i \in DOMAIN polygon_df |-> polygon_df[i].city])
    IN  [n \in DOMAIN cities |->
           [city |-> cities[n], region |-> All, section |-> All, name |-> cities[n],
            polygon |-> union_polygons(PolygonsOf(
                            SelectSeq(polygon_df, LAMBDA r : r.city = cities[n])))]]

RegionRows(polygon_df) ==
    LET cities == Unique([i \in DOMAIN polygon_df |-> polygon_df[i].city])
        of(city) == SelectSeq(polygon_df, LAMBDA r : r.city = city)
        regions(city) == Unique([i \in DOMAIN of(city) |-> of(city)[i].region])
    IN  Concat([n \in DOMAIN cities |->
                  [m \in DOMAIN regions(cities[n]) |->
                     [city |-> cities[n], region |-> regions(cities[n])[m], section |-> All,
                      name |-> cities[n] \o <<" ", "-", " ">> \o regions(cities[n])[m],
                      polygon |-> union_polygons(PolygonsOf(
                                      SelectSeq(of(cities[n]),
                                                LAMBDA r : r.region
                                                           = regions(cities[n])[m])))]]])

\* The exception the loop of lines 165-175 raises on a file, "" for none.
PolygonFileRaises(file) ==
    IF file.rows = <<>> THEN "EmptyDataError"
    ELSE IF Len(FormattedNames(file.path)) < 3 THEN "IndexError"
    ELSE ""

\* The rows of combined_df in order, the three index levels among their fields.
build_polygon_hierarchy(files) ==
    LET polygon_df == [i \in DOMAIN files |-> PolygonRow(files[i])]
        failing == {i \in DOMAIN files : PolygonFileRaises(files[i]) # ""}
    IN  IF failing # {}
        THEN Raise(PolygonFileRaises(files[CHOOSE i \in failing : \A j \in failing : i <= j]))
        ELSE IF files = <<>> THEN Raise("KeyError")
        ELSE Return(polygon_df \o CityRows(polygon_df) \o RegionRows(polygon_df))

----------------------------------------------------------------------------
(* The map functions: show_polygon, show_polygons (polygon.py),            *)
(* view_osmnx_data, explore_wrapper (map_data.py) and open_browser          *)
(* (browser.py).  The GIS library builds the map; the model keeps what the  *)
(* functions do to the file system and to the browser.                      *)

None == <<"None">>

\* os.path.dirname(path): what is ahead of the last separator, the separators at its
\* end dropped; '' for a bare file name.
RECURSIVE StripSlashes(_)
StripSlashes(path) ==
    IF path # <<>> /\ Last(path) = Slash THEN StripSlashes(Front(path)) ELSE path

Dirname(path) ==
    IF \E i \in DOMAIN path : path[i] = Slash
    THEN StripSlashes(SubSeq(path, 1,
             (CHOOSE i \in DOMAIN path :
                  path[i] = Slash /\ \A j \in (i + 1)..Len(path) : path[j] # Slash) - 1))
    ELSE <<>>

\* os.path.abspath(out_file)
Abspath(path) == <<"cwd", Slash>> \o path

ExploreFolder == <<"..", Slash, "data", Slash, "explore", Slash>>

\* What a call has done so far: the exception that ended it and its events in order.
Doing(events) == [raised |-> "", events |-> events, dirs |-> {}]
Failed(e, events) == [raised |-> e, events |-> events, dirs |-> {}]

\* oddish.open_browser(out_file) when the flag is set.
ThenBrowser(events, out_file, open_browser) ==
    IF open_browser THEN Append(events, <<"open", Abspath(out_file)>>) ELSE events

\* gdf.explore().save(out_file): the file is opened for writing in a directory that
\* exists ('' is the working directory).
SaveMap(dirs, events, out_file, open_browser) ==
    IF Dirname(out_file) # <<>> /\ Dirname(out_file) \notin dirs
    THEN [Failed("FileNotFoundError", events) EXCEPT !.dirs = dirs]
    ELSE [Doing(ThenBrowser(Append(events, <<"save", out_file>>), out_file, open_browser))
            EXCEPT !.dirs = dirs]

\* show_polygon and show_polygons, default the file name of the function.
show_polygon(dirs, default, out_file, open_browser) ==
    LET file == IF out_file = None THEN StripSlashes(ExploreFolder) \o <<Slash, default>>
                ELSE out_file
        folders == Dirname(file)
    IN  IF folders = <<>> THEN [Failed("FileNotFoundError", <<>>) EXCEPT !.dirs = dirs]
        ELSE SaveMap(dirs \cup {folders}, <<<<"makedirs", folders>>>>, file, open_browser)

\* view_osmnx_data and explore_wrapper.
explore_wrapper(dirs, out_file, open_browser) ==
    IF out_file = None
    THEN SaveMap(dirs \cup {StripSlashes(ExploreFolder)},
                 <<<<"makedirs", StripSlashes(ExploreFolder)>>>>,
                 ExploreFolder \o <<Slash, "temp.html">>, open_browser)
    ELSE SaveMap(dirs, <<>>, out_file, open_browser)

MapFunctions == {"show_polygon", "show_polygons", "view_osmnx_data", "explore_wrapper"}

MapCall(function, dirs, out_file, open_browser) ==
    CASE function = "show_polygon" -> show_polygon(dirs, "polygon.html", out_file, open_browser)
      [] function = "show_polygons" ->
             show_polygon(dirs, "polygons.html", out_file, open_browser)
      [] OTHER -> explore_wrapper(dirs, out_file, open_browser)

NoMapCall == [function |-> "", out_file |-> None, open_browser |-> FALSE, raised |-> "",
              events |-> <<>>]

MapsIdle ==
    /\ directories = {}
    /\ map_files = {}
    /\ browser = <<>>
    /\ map_call = NoMapCall

----------------------------------------------------------------------------
(* Run (run/run.py): the heart-rate table, the pace per heart beat and the  *)
(* graph data.  Times are whole seconds; a float is a fraction in lowest    *)
(* terms <<numerator, denominator>>.                                        *)

RECURSIVE Gcd(_, _)
Gcd(a, b) == IF b = 0 THEN a ELSE Gcd(b, a % b)

Fraction(n, d) == <<n \div Gcd(n, d), d \div Gcd(n, d)>>

\* a / b of two floats, b not 0.
Divide(a, b) == Fraction(a[1] * b[2], a[2] * b[1])

Min(S) == CHOOSE x \in S : \A y \in S : x <= y
Max(S) == CHOOSE x \in S : \A y \in S : y <= x

\* The samples as they are, marked 'real' and labelled from 0: no resampling.
MarkedReal(samples) ==
    [n \in DOMAIN samples |->
       [index |-> n - 1, startDate |-> samples[n].startDate,
        value |-> Fraction(samples[n].value, 1), status |-> "real"]]

\* set_index('startDate').resample('1S').asfreq(), interpolate(method='time') and
\* fillna('sampled'), then reset_index: a row for each second from the first sample
\* to the last, labelled from 0.
interpolate_heart_rate(samples) ==
    LET times == {samples[i].startDate : i \in DOMAIN samples}
        at(t) == samples[CHOOSE i \in DOMAIN samples : samples[i].startDate = t]
        before(t) == Max({u \in times : u < t})
        after(t) == Min({u \in times : u > t})
        between(t) ==
            Fraction(at(before(t)).value * (after(t) - t) + at(after(t)).value * (t - before(t)),
                     after(t) - before(t))
    IN  [n \in 1..(Max(times) - Min(times) + 1) |->
           LET t == Min(times) + n - 1
           IN  IF t \in times
               THEN [index |-> n - 1, startDate |-> t, value |-> Fraction(at(t).value, 1),
                     status |-> "real"]
               ELSE [index |-> n - 1, startDate |-> t, value |-> between(t),
                     status |-> "sampled"]]

\* self.route_gpx.speed / self.heart_rate['value']: the two Series are aligned on
\* their row labels, and a label only one of them has gives NaN.
calc_pace_per_heart_rate(route_gpx, heart_rate_table) ==
    LET speed == [l \in {route_gpx[i].index : i \in DOMAIN route_gpx} |->
                    route_gpx[CHOOSE i \in DOMAIN route_gpx : route_gpx[i].index = l].speed]
        value == [l \in {heart_rate_table[i].index : i \in DOMAIN heart_rate_table} |->
                    heart_rate_table[CHOOSE i \in DOMAIN heart_rate_table :
                                         heart_rate_table[i].index = l].value]
    IN  [l \in DOMAIN speed \cup DOMAIN value |->
           IF l \in DOMAIN speed /\ l \in DOMAIN value
           THEN Divide(Fraction(speed[l], 1), value[l])
           ELSE NaN]

\* The dict get_data_from_type builds for a name, <<>> (None) for a name it does not
\* know; a Series is named by the column it is.
GraphData(data_type) ==
    CASE data_type = "heart_rate" ->
             [x |-> "heart_rate.startDate", y |-> "heart_rate.value",
              xlabel |-> "Time", ylabel |-> "Heart Rate"]
      [] data_type = "pace" ->
             [x |-> "route_gpx.time", y |-> "route_gpx.speed * 2.23694",
              xlabel |-> "Time", ylabel |-> "Pace (mph)"]
      [] data_type = "elevation" ->
             [x |-> "route_gpx.time", y |-> "route_gpx.ele",
              xlabel |-> "Time", ylabel |-> "Elevation"]
      [] data_type = "pace_per_beat" ->
             [x |-> "route_gpx.time", y |-> "pace_per_heart_beat",
              xlabel |-> "Time", ylabel |-> "Pace per Heart Beat"]
      [] OTHER -> <<>>

\* A list argument is [is_list |-> TRUE, items |-> its elements]; any other argument
\* is [is_list |-> FALSE, items |-> <<the argument>>].
get_data_from_type(data_types) ==
    LET listed == IF data_types.is_list THEN data_types.items ELSE <<data_types.items[1]>>
        found == [i \in DOMAIN listed |-> GraphData(listed[i])]
    IN  SelectSeq(found, LAMBDA graph_data : graph_data # <<>>)

\* ax.plot(x, y) raises ValueError when x and y differ in length: the pace per heart
\* beat has an entry for every row label of the route or of the heart-rate table, and
\* is plotted against the times of the route.
PlotRaises(self, data_type) ==
    data_type = "pace_per_beat"
        /\ Len(self.route_gpx) # Cardinality(DOMAIN self.pace_per_heart_beat)

\* The lines a config adds to the plot, one per smoothing window.
Plotted(data_config, graph_data) ==
    LET smoothing_windows ==
            IF "windows" \in DOMAIN data_config THEN data_config.windows ELSE <<1>>
    IN  [w \in DOMAIN smoothing_windows |->
           [y |-> graph_data.y, window |-> smoothing_windows[w],
            ylabel |-> graph_data.ylabel]]

\* A variant that goes on to the next config when the list of a config is empty.
RECURSIVE SkipUnrecognized(_, _)
SkipUnrecognized(self, data_configs) ==
    IF data_configs = <<>> THEN Return(<<>>)
    ELSE LET earlier == SkipUnrecognized(self, Front(data_configs))
             data_config == Last(data_configs)
             graph_data_list ==
                 get_data_from_type([is_list |-> TRUE, items |-> <<data_config.value>>])
         IN  IF earlier.raised # "" \/ graph_data_list = <<>> THEN earlier
             ELSE IF PlotRaises(self, data_config.value) THEN Raise("ValueError")
             ELSE Return(earlier.value \o Plotted(data_config, graph_data_list[1]))

\* simple_graph(data_configs): what it plots, config by config and window by window,
\* or the exception it raises on the first config it cannot plot.
RECURSIVE simple_graph(_, _)
simple_graph(self, data_configs) ==
    IF data_configs = <<>> THEN Return(<<>>)
    ELSE LET earlier == simple_graph(self, Front(data_configs))
             data_config == Last(data_configs)
             graph_data_list ==
                 get_data_from_type([is_list |-> TRUE, items |-> <<data_config.value>>])
         IN  IF earlier.raised # "" THEN earlier
             ELSE IF graph_data_list = <<>> THEN Raise("IndexError")
             ELSE IF PlotRaises(self, data_config.value) THEN Raise("ValueError")
             ELSE Return(earlier.value \o Plotted(data_config, graph_data_list[1]))

NoRunConfig == [heart_rate |-> <<>>, route_gpx |-> <<>>]

RunIdle ==
    /\ run_config = NoRunConfig
    /\ run_heart_rate = <<>>
    /\ pace_per_heart_beat = <<>>
    /\ graph = <<>>

\* build_apple_health_kit after the object is constructed: 'if pickle_file:' is false
\* for None and for '', and open(pickle_file, 'wb') needs the directory of the file
\* ('' is the working directory).
Truthy(value) == value # None /\ value # <<>>

\* A variant that opens and writes the file whatever pickle_file is.
DumpAlways(dirs, file) ==
    IF Dirname(file) # <<>> /\ Dirname(file) \notin dirs THEN Raise("FileNotFoundError")
    ELSE Return({file})

\* The files the function writes (lines 437-440).
DumpPickle(dirs, file) ==
    IF ~Truthy(file) THEN Return({})
    ELSE IF Dirname(file) # <<>> /\ Dirname(file) \notin dirs
         THEN Raise("FileNotFoundError")
    ELSE Return({file})

BuildIdle == pickle_file = None /\ pickle_files = {}

sideVars == <<mapVars, runVars, buildVars>>
SideIdle == MapsIdle /\ RunIdle /\ BuildIdle

----------------------------------------------------------------------------
(* The exports the model reads.                                            *)

Attr(name, value) == <<Str(name), value>>

ExportDateElem(value) == Elem("ExportDate", <<Attr("value", value)>>, <<>>)

MeElem(date_of_birth) ==
    Elem("Me",
         <<<<<<"HKCharacteristicTypeIdentifier", "DateOfBirth">>, date_of_birth>>,
           <<<<"HKCharacteristicTypeIdentifier", "BiologicalSex">>,
             <<"HKBiologicalSex", "Male">>>>>>,
         <<>>)

MeWithoutDateOfBirth ==
    Elem("Me",
         <<<<<<"HKCharacteristicTypeIdentifier", "BiologicalSex">>,
             <<"HKBiologicalSex", "Male">>>>>>,
         <<>>)

RecordTypes ==
    {<<"HKQuantityTypeIdentifier", "BodyMass">>,
     <<"HKCategoryTypeIdentifier", "BodyMass">>,
     <<"HKQuantityTypeIdentifier", "HeartRate">>,
     <<"HKDataType", "SleepDurationGoal">>,
     <<"HKQuantityTypeIdentifier", "BodyMass", "HKDataType">>}

RecordElem(type, start_date, value_attr) ==
    Elem("Record", <<Attr("type", type), Attr("startDate", start_date)>> \o value_attr, <<>>)

\* Records with a value that is a number or is none, and Records without a value.
RecordElems ==
    {RecordElem(t, Str("2024-01-01"), v) :
        t \in RecordTypes \ {<<"HKQuantityTypeIdentifier", "HeartRate">>},
        v \in {<<Attr("value", Str("72"))>>, <<Attr("value", Str("high"))>>}}
    \cup {RecordElem(t, Str("2024-01-01"), <<>>) :
              t \in {<<"HKQuantityTypeIdentifier", "HeartRate">>,
                     <<"HKQuantityTypeIdentifier", "BodyMass">>}}

\* Record sequences with a startDate that is no date.
UndatedRecords ==
    LET good == RecordElem(<<"HKQuantityTypeIdentifier", "BodyMass">>, Str("2024-01-01"),
                           <<Attr("value", Str("72"))>>)
        bad == RecordElem(<<"HKQuantityTypeIdentifier", "HeartRate">>, Str("soon"),
                          <<Attr("value", Str("60"))>>)
    IN  {<<bad>>, <<good, bad>>, <<bad, good>>}

HealthData(export_dates, mes, records, workout_elems) ==
    Elem("HealthData", <<Attr("locale", Str("en_US"))>>,
         export_dates \o mes \o records \o workout_elems)

GoodXml == <<"<?xml?>", DOCTYPE, SubsetEnd, "<HealthData>">>
XmlTokens == {"<?xml?>", DOCTYPE, SubsetEnd, VT, "<HealthData>"}

GoodTree ==
    HealthData(<<ExportDateElem(Str("2024-01-03"))>>, <<MeElem(Str("2024-01-01"))>>,
               <<>>, <<>>)

Export(text, tree, files) == [xml |-> text, tree |-> tree, files |-> files]

\* Export texts of every shape, around a well-formed document.
XmlExports == {Export(t, GoodTree, <<>>) : t \in SeqsUpTo(XmlTokens, MaxXmlLen)}

\* Documents with and without the ExportDate and Me nodes.
HeaderExports ==
    {Export(GoodXml, HealthData(e, m, <<>>, <<>>), <<>>) :
        e \in {<<>>, <<ExportDateElem(Str("2024-01-03"))>>, <<ExportDateElem(Str("soon"))>>},
        m \in {<<>>, <<MeElem(Str("2024-01-01"))>>, <<MeElem(Str("soon"))>>,
               <<MeWithoutDateOfBirth>>}}

\* Documents with every sequence of Record elements.
RecordExports ==
    {Export(GoodXml,
            HealthData(<<ExportDateElem(Str("2024-01-03"))>>, <<MeElem(Str("2024-01-01"))>>,
                       r, <<>>),
            <<>>) :
        r \in SeqsUpTo(RecordElems, MaxRecords)}

\* The Records Run.from_HKMetadataKey looks up, dated before the workouts below, and
\* a heart-rate sample taken during them.
StandardRecords ==
    <<RecordElem(<<"HKQuantityTypeIdentifier", "BodyMass">>, Str("2024-01-01"),
                 <<Attr("value", Str("72"))>>),
      RecordElem(<<"HKQuantityTypeIdentifier", "RestingHeartRate">>, Str("2024-01-01"),
                 <<Attr("value", Str("60"))>>),
      RecordElem(<<"HKQuantityTypeIdentifier", "VO2Max">>, Str("2024-01-01"),
                 <<Attr("value", Str("60"))>>),
      RecordElem(<<"HKQuantityTypeIdentifier", "HeartRateVariabilitySDNN">>,
                 Str("2024-01-01"), <<Attr("value", Str("60"))>>),
      RecordElem(<<"HKQuantityTypeIdentifier", "HeartRate">>, Str("2024-01-03"),
                 <<Attr("value", Str("72"))>>)>>

WorkoutElem(activity, children) ==
    Elem("Workout",
         <<Attr("workoutActivityType", <<"HKWorkoutActivityType", activity>>),
           Attr("duration", Str("60")),
           Attr("startDate", Str("2024-01-02")),
           Attr("endDate", Str("2024-01-04"))>>,
         children)

MetadataEntry(key, value) ==
    Elem("MetadataEntry", <<Attr("key", key), Attr("value", value)>>, <<>>)

WorkoutStatistics(quantity, sum) ==
    Elem("WorkoutStatistics",
         <<Attr("type", <<"HKQuantityTypeIdentifier", quantity>>),
           Attr("startDate", Str("2024-01-02")),
           Attr("endDate", Str("2024-01-04")),
           Attr("sum", sum),
           Attr("unit", Str("Cal"))>>,
         <<>>)

RouteNames == {<<"route_1", GPX>>, <<"route_1", GPX, GPX>>, <<"route_2", GPX>>}

\* The path of a FileReference: '/workout-routes/<file name>'.
RouteReference(name) == <<Slash, "workout-routes", Slash>> \o name

\* A WorkoutRoute as the Health app writes it: its own metadata, then the file.
WorkoutRoute(name) ==
    Elem("WorkoutRoute", <<>>,
         <<MetadataEntry(Str("HKMetadataKeySyncIdentifier"), Str("route-1")),
           Elem("FileReference", <<Attr("path", RouteReference(name))>>, <<>>)>>)

WorkoutRouteWithoutFile ==
    Elem("WorkoutRoute", <<>>, <<MetadataEntry(Str("HKMetadataKeySyncVersion"), Str("2"))>>)

\* A WorkoutActivity with metadata and statistics of its own.
WorkoutActivity ==
    Elem("WorkoutActivity", <<Attr("uuid", Str("activity-1"))>>,
         <<MetadataEntry(Str("HKElevationAscended"), <<"60", " cm">>),
           WorkoutStatistics("DistanceWalkingRunning", Str("60"))>>)

WorkoutChildren ==
    {MetadataEntry(Str("HKMetadataKeySyncIdentifier"), Str("run-1")),
     MetadataEntry(Str("HKElevationAscended"), <<"72", " cm">>),
     WorkoutStatistics("ActiveEnergyBurned", Str("72")),
     WorkoutActivity,
     WorkoutRoute(<<"route_1", GPX>>),
     WorkoutRouteWithoutFile}

\* The workout Run.from_HKMetadataKey is written for.
RunningWorkout(name) ==
    WorkoutElem("Running",
        <<MetadataEntry(Str("HKMetadataKeySyncIdentifier"), Str("run-1")),
          MetadataEntry(Str("HKTimeZone"), Str("America/Los_Angeles")),
          MetadataEntry(Str("HKWeatherTemperature"), <<"72", " degF">>),
          MetadataEntry(Str("HKWeatherHumidity"), <<"60", " %">>),
          MetadataEntry(Str("HKElevationAscended"), <<"72", " cm">>),
          WorkoutStatistics("ActiveEnergyBurned", Str("72")),
          WorkoutStatistics("BasalEnergyBurned", Str("60")),
          WorkoutStatistics("DistanceWalkingRunning", Str("72")),
          WorkoutRoute(name)>>)

WorkoutSequences ==
    {<<WorkoutElem(a, c)>> : a \in {"Running", "Walking"},
                             c \in SeqsUpTo(WorkoutChildren, MaxWorkoutChildren)}
    \cup {<<w1, w2>> : w1, w2 \in {RunningWorkout(<<"route_1", GPX>>),
                                   WorkoutElem("Running", <<>>),
                                   WorkoutElem("Walking", <<WorkoutActivity>>)}}

\* Documents with every sequence of Workout elements.
WorkoutExports ==
    {Export(GoodXml,
            HealthData(<<ExportDateElem(Str("2024-01-03"))>>, <<MeElem(Str("2024-01-01"))>>,
                       StandardRecords, w),
            <<>>) :
        w \in WorkoutSequences}

TrkptElem(time, speed) ==
    Elem("trkpt", <<Attr("lat", Str("60")), Attr("lon", Str("72"))>>,
         <<TextElem("ele", Str("72")),
           TextElem("time", time),
           Elem("extensions", <<>>,
                <<TextElem("speed", speed), TextElem("course", Str("60")),
                  TextElem("hAcc", Str("60")), TextElem("vAcc", Str("72"))>>)>>)

TrkptWithoutEle ==
    Elem("trkpt", <<Attr("lat", Str("60")), Attr("lon", Str("72"))>>,
         <<TextElem("time", Str("2024-01-03"))>>)

TrkptElems == {TrkptElem(Str("2024-01-02"), Str("60")),
               TrkptElem(Str("2024-01-03"), Str("72"))}

GpxTree(trkpts) ==
    Elem("gpx", <<>>, <<Elem("trk", <<>>, <<Elem("trkseg", <<>>, trkpts)>>)>>)

\* glob.glob(f'{folder}/workout-routes//*.gpx'): the folder as given, then the
\* platform's separator (os.sep), then the file name.
RoutePath(sep, name) == <<"apple_health_export", Slash, "workout-routes", sep>> \o name

\* The listings of a folder: its files in any order, no name twice.
RouteListings(sep) ==
    LET files == {[path |-> RoutePath(sep, n), tree |-> GpxTree(t)] :
                     n \in RouteNames, t \in SeqsUpTo(TrkptElems, MaxTrkpts)}
    IN  {<<>>} \cup {<<f>> : f \in files}
        \cup {l \in files \X files : l[1].path # l[2].path}

\* Exports with every workout-routes folder, on both platforms, and a Running
\* workout that refers to one of its files.
RouteExports ==
    {Export(GoodXml,
            HealthData(<<ExportDateElem(Str("2024-01-03"))>>, <<MeElem(Str("2024-01-01"))>>,
                       StandardRecords, <<RunningWorkout(n)>>),
            l) :
        n \in RouteNames, l \in RouteListings(Slash) \cup RouteListings(Backslash)}

\* Records of one type at different dates, in every order.
DatedRecords(type, dates) ==
    LET dated == {RecordElem(<<"HKQuantityTypeIdentifier", type>>, d, <<Attr("value", v)>>) :
                     d \in dates, v \in NumberText}
    IN  {<<r>> : r \in dated}
        \cup {l \in dated \X dated :
                 AttribGet(l[1].attrib, Str("startDate"))
                     # AttribGet(l[2].attrib, Str("startDate"))}

\* The StandardRecords with those of one type replaced by others.
WithRecordsOf(type, records) ==
    SelectSeq(StandardRecords,
              LAMBDA r : AttribGet(r.attrib, Str("type")) # <<"HKQuantityTypeIdentifier", type>>)
    \o records

\* Exports of a Running workout from 2024-01-02 to 2024-01-04 and its route, with the
\* Records a Run looks up dated before and after the start of the workout, and with
\* heart-rate samples before, at, between and after its start and end.
LookupExports ==
    LET files == <<[path |-> RoutePath(Slash, <<"route_1", GPX>>),
                    tree |-> GpxTree(<<TrkptElem(Str("2024-01-03"), Str("60"))>>)]>>
        export(records) ==
            Export(GoodXml,
                   HealthData(<<ExportDateElem(Str("2024-01-04"))>>,
                              <<MeElem(Str("2024-01-01"))>>,
                              records, <<RunningWorkout(<<"route_1", GPX>>)>>),
                   files)
    IN  UNION {{export(WithRecordsOf(type, r)) :
                  r \in DatedRecords(type, {Str("2023-12-31"), Str("2024-01-01"),
                                            Str("2024-01-03")})} :
               type \in {"BodyMass", "RestingHeartRate", "VO2Max",
                         "HeartRateVariabilitySDNN"}}
        \cup {export(WithRecordsOf("HeartRate", r)) :
                 r \in DatedRecords("HeartRate", {Str("2024-01-01"), Str("2024-01-02"),
                                                  Str("2024-01-03"), Str("2024-01-04")})}

\* One export for each way an item of the input can be malformed.
MalformedExports ==
    {Export(GoodXml,
            HealthData(<<ExportDateElem(Str("2024-01-03"))>>, <<MeElem(Str("2024-01-01"))>>,
                       r, <<>>),
            <<>>) : r \in UndatedRecords}
    \cup {Export(GoodXml,
                 HealthData(<<ExportDateElem(Str("2024-01-03"))>>,
                            <<MeElem(Str("2024-01-01"))>>, StandardRecords,
                            <<WorkoutElem("Running", c)>>),
                 <<>>) :
              c \in {<<WorkoutRouteWithoutFile>>,
                     <<WorkoutStatistics("ActiveEnergyBurned", Str("high"))>>}}
    \cup {Export(GoodXml,
                 HealthData(<<ExportDateElem(Str("2024-01-03"))>>,
                            <<MeElem(Str("2024-01-01"))>>,
                            <<RecordElem(<<"HKQuantityTypeIdentifier", "BodyMass">>,
                                         Str("2024-01-01"), <<Attr("value", Str("high"))>>)>>,
                            <<>>),
                 <<[path |-> RoutePath(Slash, <<"route_1", GPX>>), tree |-> GpxTree(t)]>>) :
              t \in {<<TrkptWithoutEle>>,
                     <<TrkptElem(Str("2024-01-02"), Str("60")), TrkptWithoutEle>>,
                     <<TrkptElem(Str("2024-01-02"), Str("fast"))>>}}

\* The keys a Run is asked for: the workout's own sync identifier and the one its
\* WorkoutRoute carries.
HKMetadataKeys == {Str("run-1"), Str("route-1")}

----------------------------------------------------------------------------
(* AppleHealthKit.__init__ / _ingest_apple_health_data, one action a step. *)

Ingesting(exports) ==
    /\ \E e \in exports :
          /\ export_xml = e.xml
          /\ export_tree = e.tree
          /\ route_files = e.files
    /\ pc = "load"
    /\ exception = ""
    /\ xml_string = <<>>
    /\ apple_health_export_xml_root = NoElem
    /\ metadata = EmptyDict
    /\ characteristics = EmptyDict
    /\ quantities = EmptyDict
    /\ workouts = EmptyDict
    /\ routes = DataFrame(<<>>)
    /\ run = NotRun
    /\ polygon_files = <<>>
    /\ coordinates = <<>>
    /\ ring = <<>>
    /\ combined_df = <<>>

InitWith(exports) == Ingesting(exports) /\ SideIdle

Raised(outcome) ==
    /\ outcome.raised # ""
    /\ pc' = "raised"
    /\ exception' = outcome.raised

\* ET.fromstring yields the tree of the document the text holds.
LoadXml ==
    /\ pc = "load"
    /\ LET outcome == _load_apple_healthkit_export_xml(export_xml)
       IN  IF outcome.raised # ""
           THEN Raised(outcome) /\ UNCHANGED <<xml_string, apple_health_export_xml_root>>
           ELSE /\ xml_string' = outcome.value
                /\ apple_health_export_xml_root' = export_tree
                /\ pc' = "metadata"
                /\ UNCHANGED exception
    /\ UNCHANGED <<inputVars, polygonVars, sideVars, run, metadata, characteristics, quantities, workouts, routes>>

GetMetadata ==
    /\ pc = "metadata"
    /\ LET outcome == _get_metadata(apple_health_export_xml_root)
       IN  IF outcome.raised # ""
           THEN Raised(outcome) /\ UNCHANGED metadata
           ELSE metadata' = outcome.value /\ pc' = "characteristics" /\ UNCHANGED exception
    /\ UNCHANGED <<inputVars, polygonVars, sideVars, run, xml_string, apple_health_export_xml_root, characteristics,
                   quantities, workouts, routes>>

GetCharacteristics ==
    /\ pc = "characteristics"
    /\ LET outcome == _get_characteristics(apple_health_export_xml_root)
       IN  IF outcome.raised # ""
           THEN Raised(outcome) /\ UNCHANGED characteristics
           ELSE characteristics' = outcome.value /\ pc' = "quantities" /\ UNCHANGED exception
    /\ UNCHANGED <<inputVars, polygonVars, sideVars, run, xml_string, apple_health_export_xml_root, metadata,
                   quantities, workouts, routes>>

BuildQuantityTables ==
    /\ pc = "quantities"
    /\ LET outcome == _build_AHK_quantity_tables(apple_health_export_xml_root)
       IN  IF outcome.raised # ""
           THEN Raised(outcome) /\ UNCHANGED quantities
           ELSE quantities' = outcome.value /\ pc' = "workouts" /\ UNCHANGED exception
    /\ UNCHANGED <<inputVars, polygonVars, sideVars, run, xml_string, apple_health_export_xml_root, metadata,
                   characteristics, workouts, routes>>

BuildWorkoutTables ==
    /\ pc = "workouts"
    /\ LET outcome == _build_AHK_workout_tables(apple_health_export_xml_root)
       IN  /\ apple_health_export_xml_root' = outcome.tree
           /\ IF outcome.raised # ""
              THEN Raised(outcome) /\ UNCHANGED workouts
              ELSE workouts' = outcome.value /\ pc' = "routes" /\ UNCHANGED exception
    /\ UNCHANGED <<inputVars, polygonVars, sideVars, run, xml_string, metadata, characteristics, quantities, routes>>

BuildRouteTables ==
    /\ pc = "routes"
    /\ LET outcome == _build_AHK_route_tables(route_files)
       IN  IF outcome.raised # ""
           THEN Raised(outcome) /\ UNCHANGED routes
           ELSE routes' = outcome.value /\ pc' = "ingested" /\ UNCHANGED exception
    /\ UNCHANGED <<inputVars, polygonVars, sideVars, run, xml_string, apple_health_export_xml_root, metadata,
                   characteristics, quantities, workouts>>

\* Run.from_HKMetadataKey(apple_health_kit, HKMetadataKey) on the ingested object.
FromHKMetadataKey ==
    /\ pc = "ingested"
    /\ \E HKMetadataKey \in HKMetadataKeys :
          run' = from_HKMetadataKey(characteristics, quantities, workouts, routes,
                                    HKMetadataKey)
    /\ pc' = "run"
    /\ UNCHANGED <<inputVars, polygonVars, sideVars, exception, xml_string, apple_health_export_xml_root,
                   metadata, characteristics, quantities, workouts, routes>>

Next ==
    \/ LoadXml
    \/ GetMetadata
    \/ GetCharacteristics
    \/ BuildQuantityTables
    \/ BuildWorkoutTables
    \/ BuildRouteTables
    \/ FromHKMetadataKey

\* The ingestion of exports with every text, header and malformed item.
Init == InitWith(XmlExports \cup HeaderExports \cup MalformedExports)
Spec == Init /\ [][Next]_vars

\* The ingestion of exports with every sequence of Record elements.
InitRecords == InitWith(RecordExports)
SpecRecords == InitRecords /\ [][Next]_vars

\* The ingestion of exports with every sequence of Workout elements.
InitWorkouts == InitWith(WorkoutExports)
SpecWorkouts == InitWorkouts /\ [][Next]_vars

\* The ingestion of exports with every workout-routes folder.
InitRoutes == InitWith(RouteExports)
SpecRoutes == InitRoutes /\ [][Next]_vars

\* The ingestion of exports with the looked-up Records in every order, and the Run.
InitLookups == InitWith(LookupExports)
SpecLookups == InitLookups /\ [][Next]_vars

----------------------------------------------------------------------------
(* build_apple_health_kit(apple_health_export_folder, pickle_file)         *)

PickleFiles == {None, <<>>, <<"ahk.pkl">>, <<"out", Slash, "ahk.pkl">>}

\* Exports that every step takes, and exports that one of the steps raises on.
BuildExports ==
    HeaderExports \cup MalformedExports
    \cup {Export(t, GoodTree, <<>>) :
             t \in {GoodXml, <<"<?xml?>", "<HealthData>">>, <<DOCTYPE, "<HealthData>">>}}
    \cup {e \in WorkoutExports : Len(FindAll(e.tree, "Workout")) = 2}
    \cup {e \in RouteExports : Len(e.files) <= 1}

InitBuild ==
    /\ Ingesting(BuildExports)
    /\ pickle_file \in PickleFiles
    /\ pickle_files = {}
    /\ directories \in {{}, {<<"out">>}}
    /\ map_files = {}
    /\ browser = <<>>
    /\ map_call = NoMapCall
    /\ RunIdle

\* The object is constructed: dump it if a pickle file is given, then return it.
BuildAppleHealthKit ==
    /\ pc = "ingested"
    /\ LET outcome == DumpPickle(directories, pickle_file)
       IN  IF outcome.raised # ""
           THEN Raised(outcome) /\ UNCHANGED pickle_files
           ELSE /\ pickle_files' = pickle_files \cup outcome.value
                /\ pc' = "built"
                /\ UNCHANGED exception
    /\ UNCHANGED <<healthVars, polygonVars, mapVars, runVars, pickle_file>>

NextBuild ==
    \/ LoadXml
    \/ GetMetadata
    \/ GetCharacteristics
    \/ BuildQuantityTables
    \/ BuildWorkoutTables
    \/ BuildRouteTables
    \/ BuildAppleHealthKit

SpecBuild == InitBuild /\ [][NextBuild]_vars

----------------------------------------------------------------------------
(* polygon.py on the folders the model reads.                              *)

MaxVertices == 3
MaxPolygonFiles == 2

Cells == {"0", "1", "2"}
Vertices == Cells \X Cells

\* The names of the polygon files: city-region-section, and one without a section.
PolygonNames ==
    {Join(Str("-"), <<city, region, section>>) :
        city \in {Str("sd"), <<"san", "_", "diego">>},
        region \in {Str("north"), Str("North"), Str("all")},
        section \in {Str("1"), Str("all")}}
    \cup {<<"sd", "-", "north">>}

PolygonPath(name) == <<"polygons", Slash>> \o name \o <<".", "csv">>

\* An open triangle and a closed one.
PolygonRows ==
    {<<<<"0", "0">>, <<"0", "1">>, <<"1", "1">>>>,
     <<<<"0", "0">>, <<"1", "0">>, <<"1", "1">>, <<"0", "0">>>>}

PolygonFiles ==
    {[path |-> PolygonPath(name), rows |-> rows] : name \in PolygonNames, rows \in PolygonRows}

\* Folders of one file with every list of rows, and folders of the files above in any
\* order, no name twice.
PolygonFolders ==
    {<<[path |-> PolygonPath(<<"sd", "-", "north", "-", "1">>), rows |-> rows]>> :
        rows \in SeqsUpTo(Vertices, MaxVertices)}
    \cup {l \in SeqsUpTo(PolygonFiles, MaxPolygonFiles) :
             \A i, j \in DOMAIN l : i # j => l[i].path # l[j].path}

InitPolygons ==
    /\ polygon_files \in PolygonFolders
    /\ pc = "polygons"
    /\ exception = ""
    /\ coordinates = <<>>
    /\ ring = <<>>
    /\ combined_df = <<>>
    /\ export_xml = <<>>
    /\ export_tree = NoElem
    /\ route_files = <<>>
    /\ xml_string = <<>>
    /\ apple_health_export_xml_root = NoElem
    /\ metadata = EmptyDict
    /\ characteristics = EmptyDict
    /\ quantities = EmptyDict
    /\ workouts = EmptyDict
    /\ routes = DataFrame(<<>>)
    /\ run = NotRun
    /\ SideIdle

\* load_polygon(path) on one file of the folder.
LoadPolygon ==
    /\ pc = "polygons"
    /\ \E i \in DOMAIN polygon_files :
          LET outcome == load_polygon(polygon_files[i].rows)
          IN  /\ coordinates' = polygon_files[i].rows
              /\ IF outcome.raised # ""
                 THEN Raised(outcome) /\ UNCHANGED ring
                 ELSE /\ ring' = CHOOSE r \in outcome.value : TRUE
                      /\ pc' = "polygon"
                      /\ UNCHANGED exception
    /\ UNCHANGED <<healthVars, sideVars, polygon_files, combined_df>>

\* build_polygon_hierarchy(folder).
BuildPolygonHierarchy ==
    /\ pc = "polygons"
    /\ LET outcome == build_polygon_hierarchy(polygon_files)
       IN  IF outcome.raised # ""
           THEN Raised(outcome) /\ UNCHANGED combined_df
           ELSE combined_df' = outcome.value /\ pc' = "hierarchy" /\ UNCHANGED exception
    /\ UNCHANGED <<healthVars, sideVars, polygon_files, coordinates, ring>>

NextPolygons ==
    \/ LoadPolygon
    \/ BuildPolygonHierarchy

SpecPolygons == InitPolygons /\ [][NextPolygons]_vars

----------------------------------------------------------------------------
(* Calls of the map functions.                                             *)

MaxOpened == 2

OutFiles == {None, <<"out", Slash, "map.html">>, <<"map.html">>}

InitMaps ==
    /\ directories \in SUBSET {<<"out">>, StripSlashes(ExploreFolder)}
    /\ map_files = {}
    /\ browser = <<>>
    /\ map_call = NoMapCall
    /\ RunIdle
    /\ BuildIdle
    /\ pc = "maps"
    /\ exception = ""
    /\ polygon_files = <<>>
    /\ coordinates = <<>>
    /\ ring = <<>>
    /\ combined_df = <<>>
    /\ export_xml = <<>>
    /\ export_tree = NoElem
    /\ route_files = <<>>
    /\ xml_string = <<>>
    /\ apple_health_export_xml_root = NoElem
    /\ metadata = EmptyDict
    /\ characteristics = EmptyDict
    /\ quantities = EmptyDict
    /\ workouts = EmptyDict
    /\ routes = DataFrame(<<>>)
    /\ run = NotRun

Saved(events) == {events[i][2] : i \in {j \in DOMAIN events : events[j][1] = "save"}}
Opened(events) ==
    LET opens == SelectSeq(events, LAMBDA e : e[1] = "open")
    IN  [i \in DOMAIN opens |-> opens[i][2]]

\* One call of a map function.
ShowMap ==
    /\ pc = "maps"
    /\ Len(browser) < MaxOpened
    /\ \E function \in MapFunctions, out_file \in OutFiles, open_browser \in BOOLEAN :
          LET done == MapCall(function, directories, out_file, open_browser)
          IN  /\ directories' = done.dirs
              /\ map_files' = map_files \cup Saved(done.events)
              /\ browser' = browser \o Opened(done.events)
              /\ map_call' = [function |-> function, out_file |-> out_file,
                              open_browser |-> open_browser, raised |-> done.raised,
                              events |-> done.events]
    /\ UNCHANGED <<pc, exception, healthVars, polygonVars, runVars, buildVars>>

NextMaps == ShowMap

SpecMaps == InitMaps /\ [][NextMaps]_vars

----------------------------------------------------------------------------
(* Run(run_config) and the graph functions on the Run.                     *)

MaxSecond == 4

Seconds == 1..MaxSecond

\* The elements of a set of numbers in rising order.
RECURSIVE Rising(_)
Rising(S) == IF S = {} THEN <<>> ELSE <<Min(S)>> \o Rising(S \ {Min(S)})

Reverse(seq) == [i \in DOMAIN seq |-> seq[Len(seq) + 1 - i]]

\* Heart-rate samples at distinct seconds, in rising and in falling order of time.
HeartRateSamples ==
    LET tables == UNION {[T -> {60, 72}] : T \in SUBSET Seconds \ {{}}}
        rising(v) == [i \in 1..Cardinality(DOMAIN v) |->
                        [startDate |-> Rising(DOMAIN v)[i], value |-> v[Rising(DOMAIN v)[i]]]]
    IN  {rising(v) : v \in tables} \cup {Reverse(rising(v)) : v \in tables}

\* The track points of a route in the order of their times, labelled by their rows in
\* the routes table, which are the first (offset 0) or come after those of another
\* file.
RouteTracks ==
    LET tables == UNION {[T -> {2, 3}] : T \in {U \in SUBSET Seconds : Cardinality(U) <= MaxTrkpts}}
    IN  {[i \in 1..Cardinality(DOMAIN v) |->
            [index |-> offset + i - 1, time |-> Rising(DOMAIN v)[i],
             speed |-> v[Rising(DOMAIN v)[i]], ele |-> 72]] :
            v \in tables, offset \in {0, 2}}

\* Every heart-rate table with one route, and every route with one heart-rate table.
RunConfigs ==
    {[heart_rate |-> h,
      route_gpx |-> <<[index |-> 0, time |-> 1, speed |-> 2, ele |-> 72],
                      [index |-> 1, time |-> 2, speed |-> 3, ele |-> 72]>>] :
        h \in HeartRateSamples}
    \cup {[heart_rate |-> <<[startDate |-> 1, value |-> 60], [startDate |-> 3, value |-> 72]>>,
           route_gpx |-> r] : r \in RouteTracks}

DataTypeNames == {"heart_rate", "pace", "elevation", "pace_per_beat", "cadence"}

\* A list of names, or a name that is not in a list.
DataTypeArguments ==
    {[is_list |-> TRUE, items |-> l] : l \in SeqsUpTo(DataTypeNames, 2)}
    \cup {[is_list |-> FALSE, items |-> <<n>>] : n \in DataTypeNames}

DataConfigs ==
    SeqsUpTo({[value |-> n] : n \in DataTypeNames}
             \cup {[value |-> "heart_rate", windows |-> <<1, 5>>]}, 2)

InitRun ==
    /\ run_config \in RunConfigs
    /\ run_heart_rate = run_config.heart_rate
    /\ pace_per_heart_beat = <<>>
    /\ graph = <<>>
    /\ pc = "run_init"
    /\ exception = ""
    /\ MapsIdle
    /\ BuildIdle
    /\ polygon_files = <<>>
    /\ coordinates = <<>>
    /\ ring = <<>>
    /\ combined_df = <<>>
    /\ export_xml = <<>>
    /\ export_tree = NoElem
    /\ route_files = <<>>
    /\ xml_string = <<>>
    /\ apple_health_export_xml_root = NoElem
    /\ metadata = EmptyDict
    /\ characteristics = EmptyDict
    /\ quantities = EmptyDict
    /\ workouts = EmptyDict
    /\ routes = DataFrame(<<>>)
    /\ run = NotRun

\* Run.__init__, line 46: self.interpolate_heart_rate()
InterpolateHeartRate ==
    /\ pc = "run_init"
    /\ run_heart_rate' = interpolate_heart_rate(run_heart_rate)
    /\ pc' = "interpolated"
    /\ UNCHANGED <<exception, healthVars, polygonVars, mapVars, buildVars, run_config,
                   pace_per_heart_beat, graph>>

\* Run.__init__, line 47: self.pace_per_heart_beat = self.calc_pace_per_heart_rate()
CalcPacePerHeartRate ==
    /\ pc = "interpolated"
    /\ pace_per_heart_beat' = calc_pace_per_heart_rate(run_config.route_gpx, run_heart_rate)
    /\ pc' = "constructed"
    /\ UNCHANGED <<exception, healthVars, polygonVars, mapVars, buildVars, run_config, run_heart_rate,
                   graph>>

\* run.get_data_from_type(data_types) on the constructed Run.
GetDataFromType ==
    /\ pc = "constructed"
    /\ \E data_types \in DataTypeArguments :
          graph' = [call |-> "get_data_from_type", argument |-> data_types, raised |-> "",
                    value |-> get_data_from_type(data_types)]
    /\ pc' = "graphed"
    /\ UNCHANGED <<exception, healthVars, polygonVars, mapVars, buildVars, run_config, run_heart_rate,
                   pace_per_heart_beat>>

\* run.simple_graph(data_configs) on the constructed Run.
SimpleGraph ==
    /\ pc = "constructed"
    /\ \E data_configs \in DataConfigs :
          LET outcome == simple_graph([heart_rate |-> run_heart_rate,
                                       route_gpx |-> run_config.route_gpx,
                                       pace_per_heart_beat |-> pace_per_heart_beat],
                                      data_configs)
          IN  graph' = [call |-> "simple_graph", argument |-> data_configs,
                        raised |-> outcome.raised, value |-> outcome.value]
    /\ pc' = "graphed"
    /\ UNCHANGED <<exception, healthVars, polygonVars, mapVars, buildVars, run_config, run_heart_rate,
                   pace_per_heart_beat>>

NextRun ==
    \/ InterpolateHeartRate
    \/ CalcPacePerHeartRate
    \/ GetDataFromType
    \/ SimpleGraph

SpecRun == InitRun /\ [][NextRun]_vars

----------------------------------------------------------------------------
(* Claims.                                                                 *)

Terminal == pc \in {"ingested", "run", "raised"}
QuantitiesBuilt == pc \in {"workouts", "routes", "ingested", "run"}

VendorPrefixes == {"HKQuantityTypeIdentifier", "HKCategoryTypeIdentifier", "HKDataType"}

DocumentRecords == FindAll(export_tree, "Record")
TypeOf(record) == AttribGet(record.attrib, Str("type"))

\* The indices of the document's Records whose table key is k, in document order.
RecordsKeyed(k) ==
    SelectSeq([i \in 1..Len(DocumentRecords) |-> i],
              LAMBDA i : RecordType(TypeOf(DocumentRecords[i])) = k)

\* A table row holds the attributes of a Record: every attribute in its column, as
\* written or cast, and NaN in the columns the Record has no attribute for.
RowOfRecord(row, record) ==
    /\ AttribKeys(record.attrib) \subseteq DOMAIN row
    /\ \A c \in DOMAIN row :
          IF c \in AttribKeys(record.attrib)
          THEN row[c] \in {AttribGet(record.attrib, c),
                           to_datetime(AttribGet(record.attrib, c)),
                           to_numeric(AttribGet(record.attrib, c))}
          ELSE row[c] = NaN

QuantityRowPlaces ==
    UNION {{<<k, j>> : j \in DOMAIN quantities[k].rows} : k \in DOMAIN quantities}

\* C1: the quantity tables partition the Record elements of the document: the tables
\* are those of the keys that occur (none is empty), the table of a key holds one row
\* per Record of that key, in document order, and the row counts sum to the number of
\* Records.
C1_QuantityTablesPartitionRecords ==
    QuantitiesBuilt =>
        /\ DOMAIN quantities
              = {RecordType(TypeOf(DocumentRecords[i])) : i \in DOMAIN DocumentRecords}
        /\ \A k \in DOMAIN quantities :
              /\ quantities[k].rows # <<>>
              /\ Len(quantities[k].rows) = Len(RecordsKeyed(k))
              /\ \A j \in DOMAIN quantities[k].rows :
                    RowOfRecord(quantities[k].rows[j], DocumentRecords[RecordsKeyed(k)[j]])
        /\ Cardinality(QuantityRowPlaces) = Len(DocumentRecords)

\* C1 witness: three Records, two tables, one of them with two rows from Records that
\* differ.
C1_Witness ==
    /\ QuantitiesBuilt
    /\ Len(DocumentRecords) = 3
    /\ Cardinality(DOMAIN quantities) = 2
    /\ \E k \in DOMAIN quantities :
          /\ Len(quantities[k].rows) = 2
          /\ quantities[k].rows[1] # quantities[k].rows[2]

\* The type with only a leading vendor prefix removed.
WithoutLeadingPrefix(type) ==
    IF type # <<>> /\ Head(type) \in VendorPrefixes THEN Tail(type) ELSE type

\* The type with every occurrence of the vendor strings removed.
WithoutVendorStrings(type) == SelectSeq(type, LAMBDA t : t \notin VendorPrefixes)

\* C2 as claimed: the rows of one table all have the same type attribute, and the
\* table key is that type without its leading vendor prefix, the rest unchanged.
C2_OneTablePerType ==
    QuantitiesBuilt =>
        \A k \in DOMAIN quantities : \A i, j \in DOMAIN quantities[k].rows :
            /\ quantities[k].rows[i][Str("type")] = quantities[k].rows[j][Str("type")]
            /\ k = WithoutLeadingPrefix(quantities[k].rows[i][Str("type")])

\* C2 amended: the table key of a Record is its type with every occurrence of the
\* three vendor strings removed, so two Records share a table exactly when their
\* types agree once those strings are removed.
C2_OneTablePerStrippedType ==
    QuantitiesBuilt =>
        /\ \A k \in DOMAIN quantities : \A i \in DOMAIN quantities[k].rows :
              k = WithoutVendorStrings(quantities[k].rows[i][Str("type")])
        /\ \A k1, k2 \in DOMAIN quantities :
              \A i \in DOMAIN quantities[k1].rows : \A j \in DOMAIN quantities[k2].rows :
                  k1 = k2 <=> WithoutVendorStrings(quantities[k1].rows[i][Str("type")])
                                = WithoutVendorStrings(quantities[k2].rows[j][Str("type")])

\* C2 witness: one table holds Records of two different types, one of them with a
\* vendor string that is not leading.
C2_Witness ==
    /\ QuantitiesBuilt
    /\ \E k \in DOMAIN quantities : \E i, j \in DOMAIN quantities[k].rows :
          /\ quantities[k].rows[i][Str("type")] # quantities[k].rows[j][Str("type")]
          /\ WithoutLeadingPrefix(quantities[k].rows[i][Str("type")]) # k

LoadReturned ==
    /\ pc # "load"
    /\ Search(DOCTYPE, export_xml) # 0
    /\ Search(SubsetEnd, export_xml) # 0

\* C4 as claimed: for a text with both markers the parser gets the text without the
\* block that runs from the first '<!DOCTYPE' to the first ']>' after it, and without
\* vertical tabs: everything before and after the block once, in order.
C4_DoctypeBlockRemoved ==
    LoadReturned =>
        \E i, j \in DOMAIN export_xml :
            /\ i = Search(DOCTYPE, export_xml)
            /\ i < j
            /\ export_xml[j] = SubsetEnd
            /\ \A m \in (i + 1)..(j - 1) : export_xml[m] # SubsetEnd
            /\ xml_string
                  = SelectSeq(SubSeq(export_xml, 1, i - 1)
                                  \o SubSeq(export_xml, j + 1, Len(export_xml)),
                              LAMBDA t : t # VT)

----------------------------------------------------------------------------
(* C3: what a malformed item does to the construction.                     *)

TextWithoutDoctype == Search(DOCTYPE, export_xml) = 0
NoExportDate == Find(export_tree, "ExportDate") = NoElem
MeWithoutBirthDate ==
    /\ Find(export_tree, "Me") # NoElem
    /\ \A k \in AttribKeys(Find(export_tree, "Me").attrib) :
          k # <<"HKCharacteristicTypeIdentifier", "DateOfBirth">> /\ k # Str("DateOfBirth")
UnparseableDateCell ==
    \E e \in Range(FindAll(export_tree, "Record")) \cup Range(FindAll(export_tree, "Workout")) :
        \E k \in AttribKeys(e.attrib) : DateNamed(k) /\ AttribGet(e.attrib, k) \notin DateText
RouteWithoutFileReference ==
    \E w \in Range(FindAll(export_tree, "Workout")) :
        \E r \in Range(FindAll(w, "WorkoutRoute")) : FindAll(r, "FileReference") = <<>>
TrkptIncomplete ==
    \E f \in Range(route_files) : \E t \in Range(FindAll(f.tree, "trkpt")) :
        \E tag \in {"ele", "time", "extensions"} : FindAll(t, tag) = <<>>

ListedMalformation ==
    \/ TextWithoutDoctype
    \/ NoExportDate
    \/ MeWithoutBirthDate
    \/ UnparseableDateCell
    \/ RouteWithoutFileReference
    \/ TrkptIncomplete

\* The other defects of the exports above that stop the construction.
OtherDefect ==
    \/ Search(SubsetEnd, export_xml) = 0
    \/ Find(export_tree, "Me") = NoElem
    \/ \E e \in Range(FindAll(export_tree, "ExportDate")) :
          AttribGet(e.attrib, Str("value")) \notin DateText
    \/ \E e \in Range(FindAll(export_tree, "Me")) :
          \E i \in DOMAIN e.attrib :
              /\ e.attrib[i][1] = <<"HKCharacteristicTypeIdentifier", "DateOfBirth">>
              /\ e.attrib[i][2] \notin DateText

ObjectReturned == pc \in {"ingested", "run"}

\* C3 as claimed: an export with a malformed item of the listed kinds is never made to
\* raise; the item is skipped and the construction goes on to return an object.
C3_SkipAndKeepGoing == ListedMalformation => pc # "raised"

\* C3 amended: each listed malformation makes the construction raise: no object is
\* returned, and once it has raised no further step runs.  Only a cell that fails a
\* numeric cast is skipped: an export whose sole defects are such cells is ingested.
C3_MalformedItemRaises ==
    /\ ListedMalformation => ~ObjectReturned
    /\ pc = "raised" => exception # "" /\ ~ENABLED Next
    /\ pc = "raised" => ListedMalformation \/ OtherDefect

\* C3 witness: the construction has raised in its last step on a track point without
\* ele, every earlier step having run, in an export that also has a cell that is no
\* number.
C3_Witness ==
    /\ pc = "raised"
    /\ TrkptIncomplete
    /\ DOMAIN workouts = {} /\ DOMAIN quantities # {}
    /\ \E k \in DOMAIN quantities : \E i \in DOMAIN quantities[k].rows :
          quantities[k].rows[i][Str("value")] = Str("high")

----------------------------------------------------------------------------
(* C5: the row of a Workout.                                               *)

WorkoutsBuilt == pc \in {"routes", "ingested", "run"}
RoutesBuilt == pc \in {"ingested", "run"}

DocumentWorkouts == FindAll(export_tree, "Workout")

ChildrenTagged(e, tag) == SelectSeq(e.children, LAMBDA c : c.tag = tag)

\* workoutActivityType without the HKWorkoutActivityType prefix.
ActivityOf(workout) ==
    LET type == AttribGet(workout.attrib, Str("workoutActivityType"))
    IN  IF type # <<>> /\ Head(type) = "HKWorkoutActivityType" THEN Tail(type) ELSE type

WorkoutsKeyed(k) ==
    SelectSeq([i \in 1..Len(DocumentWorkouts) |-> i],
              LAMBDA i : ActivityOf(DocumentWorkouts[i]) = k)

\* The row of the i-th Workout of the document, in the table of its activity.
RowOfWorkout(i) ==
    LET k == ActivityOf(DocumentWorkouts[i])
    IN  workouts[k].rows[CHOOSE j \in DOMAIN WorkoutsKeyed(k) : WorkoutsKeyed(k)[j] = i]

\* The columns a row has a value in.
Present(row) == {c \in DOMAIN row : row[c] # NaN}

\* The cell holds the value, as written or as the date it was cast to.
Holds(row, column, value) ==
    column \in Present(row) /\ row[column] \in {value, to_datetime(value)}

StatisticName(statistic) ==
    LET type == AttribGet(statistic.attrib, Str("type"))
    IN  IF type # <<>> /\ Head(type) = "HKQuantityTypeIdentifier" THEN Tail(type) ELSE type

\* C5 as claimed, for the MetadataEntry, WorkoutStatistics and WorkoutRoute children of
\* the Workout: every attribute has a column, every MetadataEntry has its value in the
\* column of its key, every WorkoutStatistics attribute but type, startDate and endDate
\* has its value in '<type>_<attribute>', and route_file_reference is there exactly
\* when there is a WorkoutRoute.
C5_WorkoutRow ==
    WorkoutsBuilt =>
        \A i \in DOMAIN DocumentWorkouts :
            LET workout == DocumentWorkouts[i]
                row == RowOfWorkout(i)
            IN  /\ AttribKeys(workout.attrib) \subseteq Present(row)
                /\ \A m \in Range(ChildrenTagged(workout, "MetadataEntry")) :
                      Holds(row, AttribGet(m.attrib, Str("key")),
                            AttribGet(m.attrib, Str("value")))
                /\ \A w \in Range(ChildrenTagged(workout, "WorkoutStatistics")) :
                      \A a \in AttribKeys(w.attrib) \ StatisticSkipped :
                          Holds(row, StatisticName(w) \o Str("_") \o a, AttribGet(w.attrib, a))
                /\ Str("route_file_reference") \in Present(row)
                      <=> ChildrenTagged(workout, "WorkoutRoute") # <<>>

\* The Workout without the WorkoutActivity elements among its children.
OutsideActivities(workout) ==
    [workout EXCEPT !.children = SelectSeq(@, LAMBDA c : c.tag # "WorkoutActivity")]

\* What is written to the row, in the order it is written: <<column, value>>.
RowWrites(workout) ==
    LET entries == FindAll(workout, "MetadataEntry")
        statistics == FindAll(OutsideActivities(workout), "WorkoutStatistics")
        wanted(w) == SelectSeq(w.attrib, LAMBDA a : a[1] \notin StatisticSkipped)
        reference == FindAll(OutsideActivities(workout), "FileReference")
    IN  workout.attrib
        \o [n \in DOMAIN entries |-> <<AttribGet(entries[n].attrib, Str("key")),
                                       AttribGet(entries[n].attrib, Str("value"))>>]
        \o Concat([n \in DOMAIN statistics |->
                     [a \in DOMAIN wanted(statistics[n]) |->
                        <<StatisticName(statistics[n]) \o Str("_")
                              \o wanted(statistics[n])[a][1],
                          wanted(statistics[n])[a][2]>>]])
        \o (IF FindAll(OutsideActivities(workout), "WorkoutRoute") = <<>> THEN <<>>
            ELSE <<<<Str("route_file_reference"),
                     AttribGet(Head(reference).attrib, Str("path"))>>>>)

\* C5 amended: the row has exactly the columns of the Workout's attributes, of the keys
\* of every MetadataEntry below the Workout (those inside a WorkoutActivity or a
\* WorkoutRoute too), of '<type>_<attribute>' for every WorkoutStatistics that is not
\* inside a WorkoutActivity, and route_file_reference when there is a WorkoutRoute; a
\* cell holds the value written last to its column.
C5_WorkoutRowLastWrite ==
    WorkoutsBuilt =>
        \A i \in DOMAIN DocumentWorkouts :
            LET writes == RowWrites(DocumentWorkouts[i])
                row == RowOfWorkout(i)
            IN  /\ Present(row) = {writes[n][1] : n \in DOMAIN writes}
                /\ \A n \in DOMAIN writes :
                      (\A later \in (n + 1)..Len(writes) : writes[later][1] # writes[n][1])
                          => Holds(row, writes[n][1], writes[n][2])

\* C5 witness: the row of a Workout whose sync identifier is overwritten by the one of
\* its WorkoutRoute and whose WorkoutActivity has statistics that get no column.
C5_Witness ==
    /\ WorkoutsBuilt
    /\ \E i \in DOMAIN DocumentWorkouts :
          LET workout == DocumentWorkouts[i]
          IN  /\ ChildrenTagged(workout, "WorkoutActivity") # <<>>
              /\ ChildrenTagged(workout, "WorkoutRoute") # <<>>
              /\ \E m \in Range(ChildrenTagged(workout, "MetadataEntry")) :
                    /\ AttribGet(m.attrib, Str("key")) = Str("HKMetadataKeySyncIdentifier")
                    /\ RowOfWorkout(i)[Str("HKMetadataKeySyncIdentifier")]
                          # AttribGet(m.attrib, Str("value"))
              /\ <<"DistanceWalkingRunning", "_", "sum">> \notin Present(RowOfWorkout(i))

----------------------------------------------------------------------------
(* C6, C7: the routes table and the route a Run looks up.                  *)

Trkpts(route_file) == FindAll(route_file.tree, "trkpt")

\* The number of routes rows that come before those of the i-th file.
RECURSIVE RowsBefore(_)
RowsBefore(i) == IF i = 1 THEN 0 ELSE RowsBefore(i - 1) + Len(Trkpts(route_files[i - 1]))

\* The routes rows of the i-th file.
FileRows(i) == SubSeq(routes.rows, RowsBefore(i) + 1, RowsBefore(i + 1))

\* The cell holds the text, as written, as a date or as a number.
Cast(cell, text) == cell \in {text, to_datetime(text), to_numeric(text)}

RouteColumns == {Str("route_id"), Str("lat"), Str("lon"), Str("ele"), Str("time"),
                 Str("speed"), Str("course"), Str("hAcc"), Str("vAcc")}

\* C6 as claimed: the routes table has one row for each trkpt of each file, in order,
\* with the nine columns, a file's rows carry one route_id, and the rows of two
\* different files never carry the same route_id.
C6_RouteTable ==
    RoutesBuilt =>
        /\ Len(routes.rows) = RowsBefore(Len(route_files) + 1)
        /\ \A i \in DOMAIN route_files :
              \A n \in DOMAIN Trkpts(route_files[i]) :
                  LET row == FileRows(i)[n]
                      trkpt == Trkpts(route_files[i])[n]
                  IN  /\ DOMAIN row = RouteColumns
                      /\ row[Str("route_id")] = FileRows(i)[1][Str("route_id")]
                      /\ Cast(row[Str("lat")], AttribGet(trkpt.attrib, Str("lat")))
                      /\ Cast(row[Str("lon")], AttribGet(trkpt.attrib, Str("lon")))
                      /\ \A tag \in {"ele", "time", "speed", "course", "hAcc", "vAcc"} :
                            Cast(row[Str(tag)], Find(trkpt, tag).text)
        /\ \A i, j \in DOMAIN route_files :
              i # j => \A r \in Range(FileRows(i)), q \in Range(FileRows(j)) :
                           r[Str("route_id")] # q[Str("route_id")]

\* The file name of a path, after the last separator of either kind.
FileName(path) == Last(Split(Last(Split(path, Slash)), Backslash))

\* The Run has got as far as looking up its route.
RouteLookedUp == pc = "run" /\ Str("route_gpx") \in DOMAIN run.locals

\* C7 as claimed: the route_id the Run derives from the workout's file reference is
\* the route_id of the rows of the file the reference names, and the track points the
\* Run gets are exactly the rows of that file.
C7_RunGetsItsRoute ==
    RouteLookedUp =>
        \A w \in Range(DocumentWorkouts) :
            \A reference \in Range(FindAll(w, "FileReference")) :
                \A i \in DOMAIN route_files :
                    FileName(route_files[i].path)
                            = FileName(AttribGet(reference.attrib, Str("path")))
                        => /\ \A r \in Range(FileRows(i)) :
                                 r[Str("route_id")] = run.locals[Str("route_id")]
                           /\ run.locals[Str("route_gpx")] = FileRows(i)

----------------------------------------------------------------------------
(* C8: the columns a Run reads from the workout row.                       *)

\* The document has the Running workout a Run is written for, with every
\* MetadataEntry, WorkoutStatistics and WorkoutRoute it reads.
RunningWorkoutComplete ==
    \E w \in Range(DocumentWorkouts) :
        /\ ActivityOf(w) = Str("Running")
        /\ ChildrenTagged(w, "WorkoutRoute") # <<>>
        /\ \A key \in {"HKMetadataKeySyncIdentifier", "HKTimeZone", "HKWeatherTemperature",
                       "HKWeatherHumidity", "HKElevationAscended"} :
              \E m \in Range(ChildrenTagged(w, "MetadataEntry")) :
                  AttribGet(m.attrib, Str("key")) = Str(key)
        /\ \A type \in {"ActiveEnergyBurned", "BasalEnergyBurned", "DistanceWalkingRunning"} :
              \E t \in Range(ChildrenTagged(w, "WorkoutStatistics")) :
                  StatisticName(t) = Str(type)

\* C8 as claimed: for such a workout every column the Run reads from the workout row
\* is a column of the Running table, and the Run is built without a missing-column
\* error.
C8_RunReadsBuiltColumns ==
    RunningWorkoutComplete =>
        /\ WorkoutsBuilt =>
              \A i \in DOMAIN RunConfigReads :
                  RunConfigReads[i][1] \in workouts[Str("Running")].columns
        /\ (pc = "run" /\ run.line > 193) => run.raised # "KeyError"

----------------------------------------------------------------------------
(* C9: the ring load_polygon hands to Polygon.                             *)

\* C9: for a non-empty coordinate list the ring handed to Polygon ends on its first
\* vertex: a list that is closed already is handed over unchanged, and an open list is
\* handed over with one more vertex at its end, equal to its first, the vertices it had
\* kept in order.
C9_RingClosed ==
    pc = "polygon" =>
        /\ ring[1] = ring[Len(ring)]
        /\ coordinates[1] = coordinates[Len(coordinates)] => ring = coordinates
        /\ coordinates[1] # coordinates[Len(coordinates)] =>
              /\ Len(ring) = Len(coordinates) + 1
              /\ SubSeq(ring, 1, Len(coordinates)) = coordinates
              /\ ring[Len(ring)] = coordinates[1]

\* C9 witness: load_polygon has closed an open list of three vertices.
C9_Witness ==
    /\ pc = "polygon"
    /\ Len(coordinates) = 3
    /\ coordinates[1] # coordinates[3]
    /\ Len(ring) = 4

----------------------------------------------------------------------------
(* C10: the rows of the polygon hierarchy.                                 *)

Index(row) == <<row.city, row.region, row.section>>

FileCount == Len(polygon_files)
Cities == {combined_df[i].city : i \in 1..FileCount}
CityRegions == {<<combined_df[i].city, combined_df[i].region>> : i \in 1..FileCount}

\* What the polygons of the file rows chosen by keep cover together.
Covered(keep(_)) == UNION {combined_df[i].polygon : i \in {j \in 1..FileCount : keep(combined_df[j])}}

\* One row for each file, then one row (city, 'All', 'All') for each city with the
\* union of the city's file polygons, then one row (city, region, 'All') for each
\* city and region with the union of their file polygons.
HierarchyRows ==
    LET after_files == FileCount + 1
        after_cities == FileCount + Cardinality(Cities) + 1
    IN  /\ Len(combined_df) = FileCount + Cardinality(Cities) + Cardinality(CityRegions)
        /\ \A i \in 1..FileCount :
              combined_df[i].polygon = load_polygon(polygon_files[i].rows).value
        /\ \A c \in Cities :
              /\ Cardinality({k \in after_files..(after_cities - 1) :
                                 combined_df[k].city = c}) = 1
              /\ \A k \in after_files..(after_cities - 1) :
                    combined_df[k].city = c =>
                        /\ Index(combined_df[k]) = <<c, All, All>>
                        /\ combined_df[k].polygon = Covered(LAMBDA r : r.city = c)
        /\ \A p \in CityRegions :
              /\ Cardinality({k \in after_cities..Len(combined_df) :
                                 <<combined_df[k].city, combined_df[k].region>> = p}) = 1
              /\ \A k \in after_cities..Len(combined_df) :
                    <<combined_df[k].city, combined_df[k].region>> = p =>
                        /\ Index(combined_df[k]) = <<p[1], p[2], All>>
                        /\ combined_df[k].polygon
                              = Covered(LAMBDA r : r.city = p[1] /\ r.region = p[2])

\* No two rows have the same (city, region, section).
IndexUnique ==
    \A i, j \in DOMAIN combined_df : i # j => Index(combined_df[i]) # Index(combined_df[j])

----------------------------------------------------------------------------
(* C11: the map file and the browser.                                      *)

\* C11 as claimed: every call of show_polygon, show_polygons, view_osmnx_data and
\* explore_wrapper writes the map to out_file, and opens the browser exactly when
\* open_browser is true, after the map has been saved.
C11_MapSavedThenBrowser ==
    map_call.function # "" =>
        /\ Saved(map_call.events) # {}
        /\ Saved(map_call.events) \subseteq map_files
        /\ map_call.out_file # None => map_call.out_file \in Saved(map_call.events)
        /\ Opened(map_call.events) # <<>> <=> map_call.open_browser
        /\ \A i \in DOMAIN map_call.events :
              map_call.events[i][1] = "open"
                  => \E j \in 1..(i - 1) : map_call.events[j][1] = "save"

----------------------------------------------------------------------------
(* C12: the parsed tree after the steps that read it.                      *)

TreeLoaded ==
    pc \in {"metadata", "characteristics", "quantities", "workouts", "routes", "ingested",
            "run"}

\* C12 as claimed: once the tree is parsed no step adds, removes or changes an element
\* of it, and the apple_health_export_xml_root the object holds after ingestion is the
\* tree as parsed.
C12_TreeAsParsed == TreeLoaded => apple_health_export_xml_root = export_tree

\* C13: after interpolate_heart_rate on samples at distinct whole seconds the
\* heart_rate table has exactly one row for every second from the first sample's time
\* to the last one's, and no other row; a row is 'real' exactly when a sample exists at
\* its second, and then has the sample's value; any other row is 'sampled' and its
\* value lies between the values of the nearest samples before and after it.
C13_OneRowPerSecond ==
    pc \in {"interpolated", "constructed", "graphed"} =>
        LET samples == run_config.heart_rate
            times == {samples[i].startDate : i \in DOMAIN samples}
            sample(t) == samples[CHOOSE i \in DOMAIN samples : samples[i].startDate = t]
            low(t) == sample(Max({u \in times : u < t})).value
            high(t) == sample(Min({u \in times : u > t})).value
        IN  /\ \A t \in Min(times)..Max(times) :
                  Cardinality({n \in DOMAIN run_heart_rate :
                                  run_heart_rate[n].startDate = t}) = 1
            /\ \A n \in DOMAIN run_heart_rate :
                  LET row == run_heart_rate[n]
                  IN  /\ row.startDate \in Min(times)..Max(times)
                      /\ row.status \in {"real", "sampled"}
                      /\ row.status = "real" <=> row.startDate \in times
                      /\ row.status = "real" =>
                            row.value = <<sample(row.startDate).value, 1>>
                      /\ row.status = "sampled" =>
                            /\ Min({low(row.startDate), high(row.startDate)}) * row.value[2]
                                  <= row.value[1]
                            /\ row.value[1]
                                  <= Max({low(row.startDate), high(row.startDate)})
                                        * row.value[2]

\* Samples given in falling order of time, 60 and 72 three seconds apart: the rows of
\* the two seconds between them are 'sampled' with 64 and 68.
C13_Witness ==
    /\ pc = "interpolated"
    /\ Len(run_config.heart_rate) = 2
    /\ run_config.heart_rate[1].startDate > run_config.heart_rate[2].startDate
    /\ \E n \in DOMAIN run_heart_rate :
          /\ n + 1 \in DOMAIN run_heart_rate
          /\ run_heart_rate[n].status = "sampled"
          /\ run_heart_rate[n + 1].status = "sampled"
          /\ {run_heart_rate[n].value, run_heart_rate[n + 1].value} = {<<64, 1>>, <<68, 1>>}

\* The text of the 'value' attribute of the j-th Record keyed k, NaN if it has none.
ValueWritten(k, j) ==
    LET record == DocumentRecords[RecordsKeyed(k)[j]]
    IN  IF Str("value") \in AttribKeys(record.attrib)
        THEN AttribGet(record.attrib, Str("value")) ELSE NaN

\* C14: the numeric cast of the quantity tables is per table and best-effort.  Every
\* table has a row for each of its Records.  A table none of whose Records has a
\* value has no 'value' column; a table whose values are all numeric text (a Record
\* without a value gives an absent cell, which is no text) has the column converted to
\* numbers; a table with one value that is not numeric text has every cell of the
\* column as it was written, the numeric text of the other rows included.  What a
\* table's column becomes depends on the Records of that table only.
C14_NumericCastPerTable ==
    QuantitiesBuilt =>
        \A k \in DOMAIN quantities :
            LET table == quantities[k]
                places == 1..Len(RecordsKeyed(k))
            IN  /\ DOMAIN table.rows = places
                /\ IF \A j \in places : ValueWritten(k, j) = NaN
                   THEN Str("value") \notin table.columns
                   ELSE /\ Str("value") \in table.columns
                        /\ IF \A j \in places : ValueWritten(k, j) \in NumberText \cup {NaN}
                           THEN \A j \in places :
                                   table.rows[j][Str("value")]
                                      = IF ValueWritten(k, j) = Str("72") THEN Number(72)
                                        ELSE IF ValueWritten(k, j) = Str("60") THEN Number(60)
                                        ELSE NaN
                           ELSE \A j \in places :
                                   table.rows[j][Str("value")] = ValueWritten(k, j)

\* Two tables of one document: one left as written because a cell is no number,
\* though another cell of it is, and one without the column.
C14_Witness ==
    /\ QuantitiesBuilt
    /\ \E k \in DOMAIN quantities :
          /\ Len(quantities[k].rows) = 2
          /\ Str("value") \in quantities[k].columns
          /\ quantities[k].rows[1][Str("value")] = Str("72")
          /\ quantities[k].rows[2][Str("value")] = Str("high")
    /\ \E k \in DOMAIN quantities : Str("value") \notin quantities[k].columns

\* C15: calc_pace_per_heart_rate yields exactly one value per track point of the
\* route, none of them undefined, and the value of a track point is its speed divided
\* by the heart-rate value of the row of the interpolated table that has the track
\* point's time.
C15_PacePairedByTime ==
    pc \in {"constructed", "graphed"} =>
        LET route_gpx == run_config.route_gpx
        IN  /\ DOMAIN pace_per_heart_beat = {route_gpx[i].index : i \in DOMAIN route_gpx}
            /\ \A i \in DOMAIN route_gpx :
                  /\ pace_per_heart_beat[route_gpx[i].index] # NaN
                  /\ \E n \in DOMAIN run_heart_rate :
                        /\ run_heart_rate[n].startDate = route_gpx[i].time
                        /\ pace_per_heart_beat[route_gpx[i].index]
                              = Divide(<<route_gpx[i].speed, 1>>, run_heart_rate[n].value)

\* C16: the row of a Workout holds what the Workout gives without its WorkoutActivity
\* children: no MetadataEntry and no WorkoutStatistics inside a WorkoutActivity gives
\* the row a column, and none replaces a value written from outside the
\* WorkoutActivity.
C16_ActivityContributesNothing ==
    WorkoutsBuilt =>
        \A i \in DOMAIN DocumentWorkouts :
            LET writes == RowWrites(OutsideActivities(DocumentWorkouts[i]))
                row == RowOfWorkout(i)
            IN  /\ Present(row) = {writes[n][1] : n \in DOMAIN writes}
                /\ \A n \in DOMAIN writes :
                      (\A later \in (n + 1)..Len(writes) : writes[later][1] # writes[n][1])
                          => Holds(row, writes[n][1], writes[n][2])

----------------------------------------------------------------------------
(* C17: the Records a Run looks up.                                        *)

RecordsLookedUp == pc = "run" /\ Str("weight") \in DOMAIN run.locals

StartOf(e) == to_datetime(AttribGet(e.attrib, Str("startDate")))[2]
EndOf(e) == to_datetime(AttribGet(e.attrib, Str("endDate")))[2]

RecordsOf(type) ==
    SelectSeq(DocumentRecords, LAMBDA r : TypeOf(r) = <<"HKQuantityTypeIdentifier", type>>)

\* The Record of the type with the latest startDate before the workout starts.
LatestRecordBefore(type, workout) ==
    LET before == {r \in Range(RecordsOf(type)) : StartOf(r) < StartOf(workout)}
    IN  CHOOSE r \in before : \A o \in before : StartOf(o) <= StartOf(r)

\* The heart-rate samples the Run was given: <<startDate, value>>.
SamplesGiven ==
    [i \in DOMAIN run.locals[Str("heart_rate")] |->
        <<run.locals[Str("heart_rate")][i][Str("startDate")],
          run.locals[Str("heart_rate")][i][Str("value")]>>]

\* The heart-rate Records of the document taken after the workout starts and before
\* it ends, as dates and numbers.
SamplesBetween(workout) ==
    LET between == SelectSeq(RecordsOf("HeartRate"),
                             LAMBDA r : /\ StartOf(workout) < StartOf(r)
                                        /\ StartOf(r) < EndOf(workout))
    IN  [i \in DOMAIN between |->
            <<Timestamp(StartOf(between[i])),
              to_numeric(AttribGet(between[i].attrib, Str("value")))>>]

\* C17: the weight, resting heart rate, VO2 max and heart-rate variability a Run uses
\* are the values of the BodyMass, RestingHeartRate, VO2Max and
\* HeartRateVariabilitySDNN Record with the latest startDate before the start of the
\* workout, in whatever order the document has the Records; the heart-rate samples it
\* is given are those taken after the start and before the end of the workout.
C17_LatestBeforeWorkout ==
    RecordsLookedUp =>
        LET workout == DocumentWorkouts[1]
        IN  /\ \A read \in {<<"BodyMass", "weight">>,
                            <<"RestingHeartRate", "resting_heart_rate">>,
                            <<"VO2Max", "v02_max">>,
                            <<"HeartRateVariabilitySDNN", "heart_rate_variability_sdnn">>} :
                  run.locals[Str(read[2])]
                      = to_numeric(AttribGet(LatestRecordBefore(read[1], workout).attrib,
                                             Str("value")))
            /\ SamplesGiven = SamplesBetween(workout)

----------------------------------------------------------------------------
(* C18: the order of the steps and the pickle file.                        *)

StepOrder == <<"load", "metadata", "characteristics", "quantities", "workouts", "routes",
               "ingested", "built">>

\* C18: the steps are taken in the order load, metadata, characteristics, quantities,
\* workouts, routes, each setting its own attribute at its own place in that order, a
\* step that raises ends the call; the pickle file is written in the step after routes
\* and in no other, only to the file given as pickle_file and never when none is given;
\* once a step has raised no object is returned and no pickle file exists.
C18_StepsThenPickle ==
    /\ [](pc = "raised" => pickle_files = {})
    /\ [](pickle_files # {} => pc = "built")
    /\ [][/\ pc' # pc =>
                \/ pc' = "raised" /\ pc # "built"
                \/ \E i \in 1..(Len(StepOrder) - 1) :
                      StepOrder[i] = pc /\ StepOrder[i + 1] = pc'
          /\ xml_string' # xml_string => pc = "load"
          /\ metadata' # metadata => pc = "metadata"
          /\ characteristics' # characteristics => pc = "characteristics"
          /\ quantities' # quantities => pc = "quantities"
          /\ workouts' # workouts => pc = "workouts"
          /\ routes' # routes => pc = "routes"
          /\ pickle_files' # pickle_files =>
                /\ pc = "ingested"
                /\ pc' = "built"
                /\ pickle_file # None
                /\ pickle_files' = {pickle_file}]_vars

\* Every step taken, the last one with workouts and a route to put in tables, and the
\* object written to the pickle file in a directory that exists.
C18_Witness ==
    /\ pc = "built"
    /\ pickle_file = <<"out", Slash, "ahk.pkl">>
    /\ pickle_files = {pickle_file}
    /\ workouts # EmptyDict
    /\ routes.rows # <<>>

----------------------------------------------------------------------------
(* C19: an export without route files.                                     *)

----------------------------------------------------------------------------
(* C20: the graph data of a Run.                                           *)

RecognizedNames == {"heart_rate", "pace", "elevation", "pace_per_beat"}

AxisLabel(name) ==
    CASE name = "heart_rate" -> "Heart Rate"
      [] name = "pace" -> "Pace (mph)"
      [] name = "elevation" -> "Elevation"
      [] name = "pace_per_beat" -> "Pace per Heart Beat"

\* C20: get_data_from_type returns one entry for every recognized name of its
\* argument, in the order of the names, and none for a name it does not recognize, so
\* it can return fewer entries than it is given names; a name that is not in a list
\* is taken as a list of that name.  simple_graph raises on a list of configs one of
\* which has a value that is not recognized, and does so with IndexError when that
\* is the first of the configs it cannot plot.
C20_GraphData ==
    pc = "graphed" =>
        /\ graph.call = "get_data_from_type" =>
              LET names == graph.argument.items
                  recognized == SelectSeq(names, LAMBDA n : n \in RecognizedNames)
              IN  /\ graph.raised = ""
                  /\ ~graph.argument.is_list => Len(names) = 1
                  /\ Len(graph.value) = Len(recognized)
                  /\ \A i \in DOMAIN recognized :
                        /\ graph.value[i].ylabel = AxisLabel(recognized[i])
                        /\ graph.value[i].xlabel = "Time"
        /\ graph.call = "simple_graph" =>
              LET data_configs == graph.argument
                  unrecognized == {i \in DOMAIN data_configs :
                                      data_configs[i].value \notin RecognizedNames}
              IN  /\ unrecognized # {} => graph.raised # ""
                  /\ (\E i \in unrecognized :
                         \A j \in 1..(i - 1) :
                            /\ data_configs[j].value \in RecognizedNames
                            /\ data_configs[j].value # "pace_per_beat")
                        => graph.raised = "IndexError"
                  /\ graph.raised = "IndexError" => unrecognized # {}

\* The config of a name that is not recognized after one that is plotted: the call
\* raises IndexError where skipping would leave one config plotted.
C20_Witness ==
    /\ pc = "graphed"
    /\ graph.call = "simple_graph"
    /\ Len(graph.argument) = 2
    /\ graph.argument[1].value = "heart_rate"
    /\ graph.argument[2].value = "cadence"
    /\ graph.raised = "IndexError"
    /\ get_data_from_type([is_list |-> TRUE,
                           items |-> <<"heart_rate", "cadence", "pace">>])
          = <<GraphData("heart_rate"), GraphData("pace")>>

============================================================================
